---- MODULE Spec2Model ----
(***************************************************************************)
(* The ClearCutParenting service workers (v1, v2.0.0, v3.0.0): request     *)
(* classification, the network-first executors, install and activation.    *)
(* Strings are TLA+ strings; TLC evaluates Len, \o and SubSeq on them, so  *)
(* the URL tests below are computed character by character.                *)
(***************************************************************************)
EXTENDS Integers, Sequences, FiniteSets, TLC

VARIABLES
    fetchEvent,     \* the fetch event a listener is given: [ver, request]
    respondWith,    \* the executors handed to event.respondWith, in call order
    listenerDone,   \* the fetch listener has returned
    cacheNames,     \* CacheStorage: the partition names, in creation order
    store,          \* CacheStorage: partition name -> request URL -> response
    worker,         \* the version of the worker script that handles the events
    tasks,          \* the request-handling tasks: task id -> its record
    puts,           \* cache.put calls nobody awaits, still in flight
    fetchCount,     \* network fetches answered so far (the body of the next answer)
    phase,          \* lifecycle state of the worker: installing ... activated
    install,        \* the install listener's caching functions and their assets
    activation,     \* the activate listener: its purge of old partitions
    message,        \* the message listener's task (UPDATE_CACHE, PRELOAD_CONTENT)
    cleanup,        \* performCacheCleanup: its locals and the outcomes of its runs
    reentry,        \* a performCacheCleanup started while another one is running
    clock           \* the time new Date() reads, in milliseconds

classifyVars == <<fetchEvent, respondWith, listenerDone>>
storeVars == <<cacheNames, store>>
execVars == <<worker, tasks, puts, fetchCount>>
lifeVars == <<phase, install, activation, message, cleanup, reentry, clock>>

vars == <<fetchEvent, respondWith, listenerDone, cacheNames, store, worker, tasks, puts,
          fetchCount, phase, install, activation, message, cleanup, reentry, clock>>

----------------------------------------------------------------------------
(* String functions of the JavaScript runtime, as the listeners use them.  *)

\* String.prototype.startsWith
StartsWith(s, p) == Len(s) >= Len(p) /\ SubSeq(s, 1, Len(p)) = p

\* String.prototype.endsWith; a regular expression /\.(a|b)$/ is a set of these
EndsWith(s, p) == Len(s) >= Len(p) /\ SubSeq(s, Len(s) - Len(p) + 1, Len(s)) = p

\* String.prototype.includes
Includes(s, p) == \E i \in 1..(Len(s) - Len(p) + 1) : SubSeq(s, i, i + Len(p) - 1) = p

\* String.prototype.indexOf from a position, 1-based; 0 when absent
IndexOf(s, p, from) ==
    LET hits == {i \in from..(Len(s) - Len(p) + 1) : SubSeq(s, i, i + Len(p) - 1) = p}
    IN  IF hits = {} THEN 0 ELSE CHOOSE i \in hits : \A j \in hits : i <= j

LowerChar(c) ==
    CASE c = "A" -> "a" [] c = "G" -> "g" [] c = "J" -> "j" [] c = "N" -> "n"
      [] c = "P" -> "p" [] c = "S" -> "s" [] OTHER -> c

RECURSIVE ToLowerCase(_)
\* String.prototype.toLowerCase
ToLowerCase(s) ==
    IF Len(s) = 0 THEN s
    ELSE LowerChar(SubSeq(s, 1, 1)) \o ToLowerCase(SubSeq(s, 2, Len(s)))

\* new URL(url).pathname: from the first "/" after the host up to "?" or "#"
Pathname(url) ==
    LET hostStart == IndexOf(url, "://", 1) + 3
        slash     == IndexOf(url, "/", hostStart)
        q         == IndexOf(url, "?", hostStart)
        h         == IndexOf(url, "#", hostStart)
        stops     == {i \in {q, h} : i > 0}
        end       == IF stops = {} THEN Len(url)
                     ELSE (CHOOSE i \in stops : \A j \in stops : i <= j) - 1
    IN  IF slash = 0 \/ slash > end THEN "/" ELSE SubSeq(url, slash, end)

----------------------------------------------------------------------------
(* Request type detection, one set of tests per worker version.            *)

IMAGE_EXTENSIONS == {".jpg", ".jpeg", ".png", ".gif", ".webp", ".avif", ".svg"}
FONT_EXTENSIONS == {".woff", ".woff2", ".ttf", ".otf"}
CACHEABLE_ROUTES == {"/api/", "/content/", "/articles/"}

isImageRequest_v1(request) ==
    LET url == ToLowerCase(request.url)
    IN  (\E ext \in IMAGE_EXTENSIONS : Includes(url, ext)) \/ request.destination = "image"

isStaticAsset_v1(request) ==
    LET url == ToLowerCase(request.url)
    IN  \/ Includes(url, ".css")
        \/ Includes(url, ".js")
        \/ Includes(url, "fonts.googleapis.com")
        \/ Includes(url, "cdnjs.cloudflare.com")

isDynamicContent_v1(request) ==
    \E route \in CACHEABLE_ROUTES : StartsWith(Pathname(request.url), route)

isAPIRequest_v1(request) == StartsWith(Pathname(request.url), "/api/")

isImageRequest_v2(request) ==
    LET url == ToLowerCase(request.url)
    IN  (\E ext \in IMAGE_EXTENSIONS : Includes(url, ext)) \/ request.destination = "image"

isFontRequest_v2(request) ==
    LET url == ToLowerCase(request.url)
    IN  \/ \E ext \in FONT_EXTENSIONS : Includes(url, ext)
        \/ Includes(url, "fonts.googleapis.com")
        \/ request.destination = "font"

isStaticAsset_v2(request) ==
    LET url == ToLowerCase(request.url)
    IN  \/ Includes(url, ".css")
        \/ Includes(url, ".js")
        \/ Includes(url, ".manifest")
        \/ Includes(url, "cdnjs.cloudflare.com")

isAPIRequest_v2(request) ==
    LET pathname == Pathname(request.url)
    IN  \/ StartsWith(pathname, "/api/")
        \/ StartsWith(pathname, "/v1/")
        \/ Includes(pathname, "/api/")

isStaticAsset_v3(request) ==
    LET url == request.url
    IN  \/ Includes(url, ".css")
        \/ Includes(url, ".js")
        \/ Includes(url, "manifest.json")
        \/ Includes(url, "fonts.googleapis.com")
        \/ Includes(url, "fonts.gstatic.com")

isImageRequest_v3(request) ==
    LET url == ToLowerCase(request.url)
    IN  \/ \E ext \in {".jpg", ".jpeg", ".png", ".gif", ".webp", ".avif", ".svg", ".ico"} :
              EndsWith(url, ext)
        \/ Includes(url, "cdn-icons-png.flaticon.com")

isAPIRequest_v3(request) == StartsWith(Pathname(request.url), "/api/")

----------------------------------------------------------------------------
(* The fetch listeners: the sequence of executors given to respondWith.    *)
(* An empty sequence is a request the listener returns from untouched.     *)

FetchListener_v1(request) ==
    IF request.method # "GET" THEN <<>>
    ELSE IF isImageRequest_v1(request) THEN <<"handleImageRequest">>
    ELSE IF isStaticAsset_v1(request) THEN <<"handleStaticRequest">>
    ELSE IF isDynamicContent_v1(request) THEN <<"handleDynamicRequest">>
    ELSE IF isAPIRequest_v1(request) THEN <<"handleAPIRequest">>
    ELSE <<"handleGenericRequest">>

\* The v2.0.0 listener testing for static assets before images
FetchListener_v2_StaticFirst(request) ==
    IF request.method # "GET" THEN <<>>
    ELSE IF ~StartsWith(request.url, "http") THEN <<>>
    ELSE IF isStaticAsset_v2(request) THEN <<"handleStaticRequest">>
    ELSE IF isImageRequest_v2(request) THEN <<"handleImageRequest">>
    ELSE IF isFontRequest_v2(request) THEN <<"handleFontRequest">>
    ELSE IF isAPIRequest_v2(request) THEN <<"handleAPIRequest">>
    ELSE <<"handleDocumentRequest">>

FetchListener_v2(request) ==
    IF request.method # "GET" THEN <<>>
    ELSE IF ~StartsWith(request.url, "http") THEN <<>>
    ELSE IF isImageRequest_v2(request) THEN <<"handleImageRequest">>
    ELSE IF isFontRequest_v2(request) THEN <<"handleFontRequest">>
    ELSE IF isStaticAsset_v2(request) THEN <<"handleStaticRequest">>
    ELSE IF isAPIRequest_v2(request) THEN <<"handleAPIRequest">>
    ELSE <<"handleDocumentRequest">>

FetchListener_v3(request) ==
    IF request.method # "GET" THEN <<>>
    ELSE IF ~StartsWith(request.url, "http") THEN <<>>
    ELSE IF isStaticAsset_v3(request) THEN <<"cacheFirstStrategy">>
    ELSE IF isImageRequest_v3(request) THEN <<"staleWhileRevalidateStrategy">>
    ELSE IF isAPIRequest_v3(request) THEN <<"networkFirstStrategy">>
    ELSE <<"networkFirstStrategy">>

FetchListener(ver, request) ==
    CASE ver = "v1" -> FetchListener_v1(request)
      [] ver = "v2" -> FetchListener_v2(request)
      [] ver = "v3" -> FetchListener_v3(request)

----------------------------------------------------------------------------
(* Requests the page can issue.                                            *)

Versions == {"v1", "v2", "v3"}
Methods == {"GET", "POST"}
Schemes == {"http", "https", "chrome-extension"}
Hosts == {"clearcutparenting.com", "fonts.googleapis.com", "fonts.gstatic.com",
          "cdn-icons-png.flaticon.com", "cdnjs.cloudflare.com"}
Paths == {"/", "/index.html", "/style.css", "/script.js", "/manifest.json",
          "/app.manifest", "/images/hero.avif", "/images/LOGO.PNG",
          "/images/chart.js.png", "/favicon.ico", "/fonts/inter.woff2",
          "/api/data", "/api/data.json", "/api/avatar.png", "/v1/items",
          "/shop/api/list", "/content/story", "/articles/sleep"}
Queries == {"", "?v=1", "?next=a.png"}
Destinations == {"", "image", "font", "document"}

MkRequest(method, url, destination, mode) ==
    [method |-> method, url |-> url, destination |-> destination, mode |-> mode]

ClassifyRequests ==
    {MkRequest(m, s \o "://" \o h \o p \o q, d, IF d = "document" THEN "navigate" ELSE "cors") :
        m \in Methods, s \in Schemes, h \in Hosts, p \in Paths, q \in Queries,
        d \in Destinations}

----------------------------------------------------------------------------
(* Responses and the Cache Partition Store (CacheStorage).                 *)

\* The task record keeps, beside the handler's own locals (fetched, result), what
\* the partitions held when the handler looked: dynamicEntry (the dynamic
\* partition's entry) and anyEntry (the first entry of any partition).

\* A response: where it comes from, its status, and its body (the number of the
\* network answer that produced it; 0 is the content fetched at install time).
Resp(kind, status, body) == [kind |-> kind, status |-> status, body |-> body]

NoEntry == Resp("none", 0, 0)          \* cache.match resolved with undefined
Pending == Resp("pending", 0, 0)       \* not settled yet
Rejected == Resp("rejected", 0, 0)     \* the promise rejected

\* The mutant of Ok: every answer short of a server error counts
Ok_Below500(r) == r.status >= 200 /\ r.status <= 499

\* Response.ok
Ok(r) == r.status >= 200 /\ r.status <= 299

STATIC_CACHE(ver) ==
    CASE ver = "v1" -> "clearcutparenting-static-v1"
      [] ver = "v2" -> "static-v2.0.0"
      [] ver = "v3" -> "static-v3.0.0"

DYNAMIC_CACHE(ver) ==
    CASE ver = "v1" -> "clearcutparenting-dynamic-v1"
      [] ver = "v2" -> "dynamic-v2.0.0"
      [] ver = "v3" -> "dynamic-v3.0.0"

IMAGE_CACHE(ver) ==
    CASE ver = "v1" -> "clearcutparenting-images-v1"
      [] ver = "v2" -> "images-v2.0.0"
      [] ver = "v3" -> "images-v3.0.0"

\* The three names a version's cleanup keeps
currentCaches(ver) == {STATIC_CACHE(ver), DYNAMIC_CACHE(ver), IMAGE_CACHE(ver)}

\* A partition name a page can put in an UPDATE_CACHE message
ForeignCache == "tmp"

AllCacheNames == UNION {currentCaches(v) : v \in Versions} \cup {ForeignCache}

Origin == "https://clearcutparenting.com"
RootUrl == Origin \o "/"
StyleUrl == Origin \o "/style.css"
ApiUrl == Origin \o "/api/data"
ImageUrl == Origin \o "/images/Toddler Not Happy.avif"
FontCssUrl == "https://fonts.googleapis.com/css2?family=Inter:wght@400;500;600;700&display=swap"

FontUrl == "https://fonts.gstatic.com/s/inter/v12/inter.woff2"

Keys == {RootUrl, StyleUrl, ApiUrl, ImageUrl, FontCssUrl, FontUrl}

EmptyCache == [k \in Keys |-> NoEntry]
EmptyStore == [n \in AllCacheNames |-> EmptyCache]

\* Whether the partition exists (caches.has)
Has(names, n) == \E i \in 1..Len(names) : names[i] = n

\* caches.open(n): the partition is created, last in order, when it does not exist
Opened(names, n) == IF Has(names, n) THEN names ELSE Append(names, n)

\* cache.match(key) on one partition
CacheMatch(st, n, key) == st[n][key]

\* caches.match(key): the first partition, in creation order, that holds the key
CachesMatch(names, st, key) ==
    LET hits == {i \in 1..Len(names) : st[names[i]][key] # NoEntry}
    IN  IF hits = {} THEN NoEntry
        ELSE st[names[CHOOSE i \in hits : \A j \in hits : i <= j]][key]

\* The mutant of CachePut: the write is dropped
CachePut_Dropped(names, st, n, key, r) == st

\* A cache.put that leaves an entry alone once the key has one
CachePut_FirstWins(names, st, n, key, r) ==
    IF st[n][key].kind # "none" THEN st ELSE [st EXCEPT ![n][key] = r]

\* cache.put(key, response) through a handle on partition n; a handle on a
\* partition that was deleted meanwhile writes nothing a lookup can see
CachePut(names, st, n, key, r) ==
    IF Has(names, n) THEN [st EXCEPT ![n][key] = r] ELSE st

----------------------------------------------------------------------------
(* Request-handling tasks.                                                 *)

MaxTasks == 2
TaskIds == 1..MaxTasks

\* cached is the handler's local cachedResponse; put is how the cache.put the
\* handler awaits settled ("none" before that); bgEntry is what the lookup of
\* updateCacheInBackground (v2.0.0) found (Rejected when it threw)
IdleTask == [pc |-> "idle", request |-> MkRequest("GET", RootUrl, "document", "navigate"),
             handler |-> "", fetched |-> Pending, dynamicEntry |-> Pending,
             anyEntry |-> Pending, result |-> Pending, cached |-> Pending,
             put |-> "none", bgEntry |-> Pending]

----------------------------------------------------------------------------
(* The lifecycle records: install, activate and message listeners.         *)

\* The caching functions the install listener starts
InstallFns == {"cacheStaticAssets", "cacheImages", "cacheExternalResources", "addAll"}

\* The install listener before it runs (and for a worker that is already active)
IdleInstall ==
    [fns |-> [f \in InstallFns |-> "unused"],
     assets |-> [a \in Keys |-> [pc |-> "unused", fetched |-> Pending]],
     promise |-> "pending",
     skipWaiting |-> FALSE]

\* The activate listener before it runs
IdleActivation ==
    [pc |-> "idle", startNames |-> {}, startStore |-> EmptyStore, deleting |-> {},
     purged |-> {}, failed |-> FALSE, claimed |-> FALSE, notified |-> FALSE]

\* The message listener with no message being handled: urls is what is left of
\* the loop over the payload, isArray what Array.isArray said of the payload
IdleMessage ==
    [pc |-> "idle", type |-> "", cacheName |-> "", urls |-> <<>>, fetched |-> Pending,
     handled |-> 0, isArray |-> TRUE]

\* performCacheCleanup before its first run: names and requests are what is left
\* of the two loops, entries and currentSize are the locals of trimCache, before
\* is the content of the partitions when each run started, outcomes the log
\* line each finished run ended with
IdleCleanup ==
    [pc |-> "idle", names |-> <<>>, cacheName |-> "", requests |-> <<>>,
     cacheSize |-> 0, entries |-> {}, currentSize |-> 0,
     before |-> <<>>, outcomes |-> <<>>, response |-> NoEntry]

----------------------------------------------------------------------------
(* Specification SpecClassify: one fetch event, given to one listener.     *)

InitClassify ==
    /\ fetchEvent \in [ver : Versions, request : ClassifyRequests]
    /\ respondWith = <<>>
    /\ listenerDone = FALSE
    /\ cacheNames = <<>>
    /\ store = EmptyStore
    /\ worker = fetchEvent.ver
    /\ tasks = [t \in TaskIds |-> IdleTask]
    /\ puts = {}
    /\ fetchCount = 0
    /\ phase = "activated"
    /\ install = IdleInstall
    /\ activation = IdleActivation
    /\ message = IdleMessage
    /\ cleanup = IdleCleanup
    /\ reentry = IdleCleanup
    /\ clock = 0

OnFetch_v1 ==
    /\ ~listenerDone /\ fetchEvent.ver = "v1"
    /\ respondWith' = FetchListener_v1(fetchEvent.request)
    /\ listenerDone' = TRUE
    /\ UNCHANGED <<fetchEvent, storeVars, execVars, lifeVars>>

OnFetch_v2 ==
    /\ ~listenerDone /\ fetchEvent.ver = "v2"
    /\ respondWith' = FetchListener_v2(fetchEvent.request)
    /\ listenerDone' = TRUE
    /\ UNCHANGED <<fetchEvent, storeVars, execVars, lifeVars>>

OnFetch_v3 ==
    /\ ~listenerDone /\ fetchEvent.ver = "v3"
    /\ respondWith' = FetchListener_v3(fetchEvent.request)
    /\ listenerDone' = TRUE
    /\ UNCHANGED <<fetchEvent, storeVars, execVars, lifeVars>>

NextClassify == OnFetch_v1 \/ OnFetch_v2 \/ OnFetch_v3

SpecClassify == InitClassify /\ [][NextClassify]_vars

----------------------------------------------------------------------------
(* Fallback generators.                                                    *)

\* generateOfflineFallback: text/html, status 200 by default
generateOfflineFallback == Resp("offlinePage", 200, 0)

\* generateAPIErrorResponse (v2.0.0): JSON {error, offline, retry_after}, 503
generateAPIErrorResponse == Resp("apiError", 503, 0)

----------------------------------------------------------------------------
(* Specification Spec: the request executors of one active worker.         *)

\* The requests the page issues while the executors run
ExecRequests ==
    {MkRequest("GET", RootUrl, "document", "navigate"),
     MkRequest("GET", ApiUrl, "", "cors"),
     MkRequest("POST", ApiUrl, "", "cors")}

\* What fetch() can settle with: a 2xx answer, a non-2xx answer, or a rejection
FetchOutcomes(n) == {Resp("network", 200, n), Resp("network", 404, n), Rejected}

\* The content the install step stored (body 0)
Precached == Resp("network", 200, 0)

Init ==
    /\ worker \in {"v2", "v3"}
    /\ cacheNames = <<STATIC_CACHE(worker), IMAGE_CACHE(worker)>>
    /\ \E root \in {NoEntry, Precached} :
          store = [EmptyStore EXCEPT ![STATIC_CACHE(worker)][RootUrl] = root,
                                     ![STATIC_CACHE(worker)][StyleUrl] = Precached,
                                     ![IMAGE_CACHE(worker)][ImageUrl] = Precached]
    /\ tasks = [t \in TaskIds |-> IdleTask]
    /\ puts = {}
    /\ fetchCount = 0
    /\ fetchEvent = [ver |-> worker, request |-> IdleTask.request]
    /\ respondWith = <<>>
    /\ listenerDone = FALSE
    /\ phase = "activated"
    /\ install = IdleInstall
    /\ activation = IdleActivation
    /\ message = IdleMessage
    /\ cleanup = IdleCleanup
    /\ reentry = IdleCleanup
    /\ clock = 0

Finish(t, r) == [tasks EXCEPT ![t].pc = "done", ![t].result = r]
Goto(t, pc) == [tasks EXCEPT ![t].pc = pc]

\* The fetch listener of the active worker, for the event of task t: it calls
\* respondWith with one executor, or returns and leaves the request alone.
OnFetch(t) ==
    \E request \in ExecRequests :
        /\ tasks[t].pc = "idle"
        /\ \A u \in TaskIds : u < t => tasks[u].pc # "idle"
        /\ LET called == FetchListener(worker, request)
               executor == IF Len(called) = 0 THEN "" ELSE Head(called)
           IN  /\ executor \in {"", "networkFirstStrategy", "handleAPIRequest"}
               /\ tasks' = [tasks EXCEPT ![t] =
                     [@ EXCEPT !.request = request,
                               !.handler = executor,
                               !.pc = IF executor = "" THEN "passthrough" ELSE "fetch"]]
        /\ UNCHANGED <<classifyVars, storeVars, worker, puts, fetchCount, lifeVars>>

\* v3.0.0 networkFirstStrategy: await fetch(request, {cache: 'no-cache'})
NetworkFirst_Fetch(t) ==
    /\ tasks[t].pc = "fetch" /\ tasks[t].handler = "networkFirstStrategy"
    /\ \E r \in FetchOutcomes(fetchCount + 1) :
          tasks' = [tasks EXCEPT ![t].fetched = r,
                                 ![t].pc = IF r = Rejected THEN "catch_match"
                                           ELSE IF Ok(r) THEN "open" ELSE "done",
                                 ![t].result = IF r # Rejected /\ ~Ok(r) THEN r ELSE @]
    /\ fetchCount' = fetchCount + 1
    /\ UNCHANGED <<classifyVars, storeVars, worker, puts, lifeVars>>

\* v3.0.0 networkFirstStrategy: await caches.open(DYNAMIC_CACHE); then
\* cache.put(request, clone) is called and not awaited, and the response returned.
\* A rejected open is caught by the catch block.
NetworkFirst_Open(t) ==
    /\ tasks[t].pc = "open" /\ tasks[t].handler = "networkFirstStrategy"
    /\ \/ /\ cacheNames' = Opened(cacheNames, DYNAMIC_CACHE(worker))
          /\ puts' = puts \cup {[cache |-> DYNAMIC_CACHE(worker),
                                 key |-> tasks[t].request.url,
                                 response |-> tasks[t].fetched,
                                 settled |-> "pending"]}
          /\ tasks' = Finish(t, tasks[t].fetched)
       \/ /\ tasks' = Goto(t, "catch_match")
          /\ UNCHANGED <<cacheNames, puts>>
    /\ UNCHANGED <<classifyVars, store, worker, fetchCount, lifeVars>>

\* v3.0.0 networkFirstStrategy, catch block: await caches.match(request), over
\* every partition; then the offline page for a navigation, else the error is
\* thrown again. A rejected match rejects the handler.
NetworkFirst_CatchMatch(t) ==
    /\ tasks[t].pc = "catch_match" /\ tasks[t].handler = "networkFirstStrategy"
    /\ \/ LET cachedResponse == CachesMatch(cacheNames, store, tasks[t].request.url)
              dyn == CacheMatch(store, DYNAMIC_CACHE(worker), tasks[t].request.url)
          IN  tasks' = [tasks EXCEPT
                  ![t].dynamicEntry = dyn,
                  ![t].anyEntry = cachedResponse,
                  ![t].pc = "done",
                  ![t].result = IF cachedResponse # NoEntry THEN cachedResponse
                                ELSE IF tasks[t].request.mode = "navigate"
                                     THEN generateOfflineFallback
                                     ELSE Rejected]
       \/ tasks' = Finish(t, Rejected)
    /\ UNCHANGED <<classifyVars, storeVars, worker, puts, fetchCount, lifeVars>>

\* A cache.put nobody awaits settles: the entry is written, or the put rejects
\* (quota) and the rejection is left to the unhandledrejection listener.
PutSettles ==
    \E p \in puts :
        /\ p.settled = "pending"
        /\ \/ /\ store' = CachePut(cacheNames, store, p.cache, p.key, p.response)
              /\ puts' = (puts \ {p}) \cup {[p EXCEPT !.settled = "fulfilled"]}
           \/ /\ puts' = (puts \ {p}) \cup {[p EXCEPT !.settled = "rejected"]}
              /\ UNCHANGED store
        /\ UNCHANGED <<classifyVars, cacheNames, worker, tasks, fetchCount, lifeVars>>

\* v2.0.0 handleAPIRequest: await fetch(request, {headers: no-cache})
HandleAPI_Fetch(t) ==
    /\ tasks[t].pc = "fetch" /\ tasks[t].handler = "handleAPIRequest"
    /\ \E r \in FetchOutcomes(fetchCount + 1) :
          tasks' = [tasks EXCEPT ![t].fetched = r,
                                 ![t].pc = IF r = Rejected THEN "catch_open"
                                           ELSE IF Ok(r) THEN "open" ELSE "done",
                                 ![t].result = IF r # Rejected /\ ~Ok(r) THEN r ELSE @]
    /\ fetchCount' = fetchCount + 1
    /\ UNCHANGED <<classifyVars, storeVars, worker, puts, lifeVars>>

\* v2.0.0 handleAPIRequest: await caches.open(DYNAMIC_CACHE)
HandleAPI_Open(t) ==
    /\ tasks[t].pc = "open" /\ tasks[t].handler = "handleAPIRequest"
    /\ \/ /\ cacheNames' = Opened(cacheNames, DYNAMIC_CACHE(worker))
          /\ tasks' = Goto(t, "put")
       \/ /\ tasks' = Goto(t, "catch_open")
          /\ UNCHANGED cacheNames
    /\ UNCHANGED <<classifyVars, store, worker, puts, fetchCount, lifeVars>>

\* v2.0.0 handleAPIRequest: await cache.put(request, responseToCache); return
HandleAPI_Put(t) ==
    /\ tasks[t].pc = "put" /\ tasks[t].handler = "handleAPIRequest"
    /\ \/ /\ store' = CachePut(cacheNames, store, DYNAMIC_CACHE(worker),
                               tasks[t].request.url, tasks[t].fetched)
          /\ tasks' = Finish(t, tasks[t].fetched)
       \/ /\ tasks' = Goto(t, "catch_open")
          /\ UNCHANGED store
    /\ UNCHANGED <<classifyVars, cacheNames, worker, puts, fetchCount, lifeVars>>

\* v2.0.0 handleAPIRequest, catch block: await caches.open(DYNAMIC_CACHE)
HandleAPI_CatchOpen(t) ==
    /\ tasks[t].pc = "catch_open" /\ tasks[t].handler = "handleAPIRequest"
    /\ \/ /\ cacheNames' = Opened(cacheNames, DYNAMIC_CACHE(worker))
          /\ tasks' = Goto(t, "catch_match")
       \/ /\ tasks' = Finish(t, Rejected)
          /\ UNCHANGED cacheNames
    /\ UNCHANGED <<classifyVars, store, worker, puts, fetchCount, lifeVars>>

\* v2.0.0 handleAPIRequest, catch block: await cache.match(request) on the
\* dynamic partition; then generateAPIErrorResponse
HandleAPI_CatchMatch(t) ==
    /\ tasks[t].pc = "catch_match" /\ tasks[t].handler = "handleAPIRequest"
    /\ \/ LET cachedResponse == CacheMatch(store, DYNAMIC_CACHE(worker), tasks[t].request.url)
          IN  tasks' = [tasks EXCEPT
                  ![t].dynamicEntry = cachedResponse,
                  ![t].anyEntry = CachesMatch(cacheNames, store, tasks[t].request.url),
                  ![t].pc = "done",
                  ![t].result = IF cachedResponse # NoEntry THEN cachedResponse
                                ELSE generateAPIErrorResponse]
       \/ tasks' = Finish(t, Rejected)
    /\ UNCHANGED <<classifyVars, storeVars, worker, puts, fetchCount, lifeVars>>

Next ==
    \/ \E t \in TaskIds : OnFetch(t)
    \/ \E t \in TaskIds : NetworkFirst_Fetch(t)
    \/ \E t \in TaskIds : NetworkFirst_Open(t)
    \/ \E t \in TaskIds : NetworkFirst_CatchMatch(t)
    \/ PutSettles
    \/ \E t \in TaskIds : HandleAPI_Fetch(t)
    \/ \E t \in TaskIds : HandleAPI_Open(t)
    \/ \E t \in TaskIds : HandleAPI_Put(t)
    \/ \E t \in TaskIds : HandleAPI_CatchOpen(t)
    \/ \E t \in TaskIds : HandleAPI_CatchMatch(t)

Spec == Init /\ [][Next]_vars

----------------------------------------------------------------------------
(* The cache-first shaped handlers and stale-while-revalidate.             *)

\* The clock reading Date.now(), in days; it does not move while handlers run
Now == 10

\* maxAge given to updateCacheInBackground (v2.0.0), in hours:
\* 7 * 24 * 60 * 60 * 1000 ms for images, 24 * 60 * 60 * 1000 ms for css / js,
\* 60 * 60 * 1000 ms for documents
ImageMaxAge == 7 * 24
StaticMaxAge == 24
DocumentMaxAge == 1

\* A response with a date header; a record without the field has no date header
WithDate(r, d) == [kind |-> r.kind, status |-> r.status, body |-> r.body, date |-> d]
HasDate(r) == "date" \in DOMAIN r

\* What fetch() settles with when the server stamps its answers with the date
DatedFetchOutcomes(n) ==
    {WithDate(Resp("network", 200, n), Now), WithDate(Resp("network", 404, n), Now), Rejected}

\* generateImageFallback: an image/svg+xml body, status 200 by default
generateImageFallback == Resp("imagePlaceholder", 200, 0)

\* new Response('', { status: 404 }) of handleFontRequest (v2.0.0)
EmptyFontResponse == Resp("empty", 404, 0)

\* undefined, as the value an async handler resolves with
Undefined == NoEntry

\* The handlers of the shape: open, match, return the hit, else fetch and store,
\* all inside one try / catch
CacheFirstHandlers ==
    {"handleImageRequest", "handleFontRequest", "handleStaticRequest", "cacheFirstStrategy",
     "handleDocumentRequest"}

\* The partition a handler opens
HandlerCache(ver, handler) ==
    IF handler \in {"handleImageRequest", "staleWhileRevalidateStrategy"}
    THEN IMAGE_CACHE(ver)
    ELSE IF handler = "handleDocumentRequest" THEN DYNAMIC_CACHE(ver)
    ELSE STATIC_CACHE(ver)

\* What a handler's catch block returns
CatchResponse(handler) ==
    CASE handler = "handleImageRequest" -> generateImageFallback
      [] handler = "handleFontRequest" -> EmptyFontResponse
      [] handler \in {"handleStaticRequest", "cacheFirstStrategy", "handleDocumentRequest"}
            -> generateOfflineFallback

\* request.url.includes('.css') || request.url.includes('.js')
IsStyleOrScript(url) == Includes(url, ".css") \/ Includes(url, ".js")

\* The mutant of RefreshOnHit: no handler starts updateCacheInBackground
RefreshOnHit_Never(ver, handler, url) == "never"

\* Whether a hit starts updateCacheInBackground, and with which maxAge
\* ("always": the v3.0.0 function, which fetches without looking at the entry)
RefreshOnHit(ver, handler, url) ==
    CASE ver = "v2" /\ handler = "handleImageRequest" -> "maxAge"
      [] ver = "v2" /\ handler = "handleStaticRequest" /\ IsStyleOrScript(url) -> "maxAge"
      [] ver = "v2" /\ handler = "handleDocumentRequest" -> "maxAge"
      [] ver = "v3" /\ handler = "cacheFirstStrategy" /\ IsStyleOrScript(url) -> "always"
      [] OTHER -> "never"

MaxAgeOf(handler) ==
    CASE handler = "handleImageRequest" -> ImageMaxAge
      [] handler = "handleDocumentRequest" -> DocumentMaxAge
      [] OTHER -> StaticMaxAge

\* updateCacheInBackground (v2.0.0): the entry is there, has a date header, and
\* now - cacheDate < maxAge, so the function returns without fetching
StillFresh(entry, maxAge) ==
    entry # NoEntry /\ HasDate(entry) /\ (Now - entry.date) * 24 < maxAge

\* The mutant of SWRReturn: the fetch promise is returned whatever the lookup found
SWRReturn_FetchPromise(cachedResponse, fetchPromise) == fetchPromise

\* staleWhileRevalidateStrategy: return cachedResponse || fetchPromise
SWRReturn(cachedResponse, fetchPromise) ==
    IF cachedResponse # NoEntry THEN cachedResponse ELSE fetchPromise

\* A handler of either shape is at the program point pc
At(t, handlers, pc) == tasks[t].handler \in handlers /\ tasks[t].pc = pc

\* A handler's try block threw: the catch block returns the handler's fallback
\* (staleWhileRevalidateStrategy has no try: the handler rejects)
Thrown(t) ==
    [tasks EXCEPT ![t].pc = "done",
                  ![t].result = IF tasks[t].handler = "staleWhileRevalidateStrategy"
                                THEN Rejected ELSE CatchResponse(tasks[t].handler)]

\* const cache = await caches.open(...)
Handler_Open(t) ==
    /\ At(t, CacheFirstHandlers \cup {"staleWhileRevalidateStrategy"}, "open")
    /\ \/ /\ cacheNames' = Opened(cacheNames, HandlerCache(worker, tasks[t].handler))
          /\ tasks' = Goto(t, "match")
       \/ /\ tasks' = Thrown(t)
          /\ UNCHANGED cacheNames
    /\ UNCHANGED <<classifyVars, store, worker, puts, fetchCount, lifeVars>>

\* const cachedResponse = await cache.match(request); a hit is returned, after
\* updateCacheInBackground is started where the handler does that
CacheFirst_Match(t) ==
    /\ At(t, CacheFirstHandlers, "match")
    /\ \/ LET h == tasks[t].handler
              cachedResponse == CacheMatch(store, HandlerCache(worker, h), tasks[t].request.url)
              refresh == RefreshOnHit(worker, h, tasks[t].request.url)
          IN  tasks' = [tasks EXCEPT
                  ![t].cached = cachedResponse,
                  ![t].result = IF cachedResponse # NoEntry THEN cachedResponse ELSE @,
                  ![t].pc = IF cachedResponse = NoEntry THEN "fetch"
                            ELSE CASE refresh = "maxAge" -> "bg_match"
                                   [] refresh = "always" -> "bg_fetch"
                                   [] refresh = "never" -> "done"]
       \/ tasks' = Thrown(t)
    /\ UNCHANGED <<classifyVars, storeVars, worker, puts, fetchCount, lifeVars>>

\* The response a handler's fetch is answered with
Answers == DatedFetchOutcomes(fetchCount + 1)

\* const fetchResponse = await fetch(request) after a miss; a 2xx answer is stored:
\* awaited in v1 / v2.0.0, not awaited in cacheFirstStrategy (v3.0.0)
CacheFirst_Fetch(t) ==
    /\ At(t, CacheFirstHandlers, "fetch")
    /\ \E r \in Answers :
          /\ tasks' = IF r = Rejected THEN [Thrown(t) EXCEPT ![t].fetched = r]
                      ELSE IF Ok(r) /\ tasks[t].handler # "cacheFirstStrategy"
                           THEN [tasks EXCEPT ![t].fetched = r, ![t].pc = "put"]
                      ELSE [tasks EXCEPT ![t].fetched = r, ![t].pc = "done", ![t].result = r]
          /\ puts' = IF r # Rejected /\ Ok(r) /\ tasks[t].handler = "cacheFirstStrategy"
                     THEN puts \cup {[cache |-> HandlerCache(worker, tasks[t].handler),
                                      key |-> tasks[t].request.url, response |-> r,
                                      settled |-> "pending"]}
                     ELSE puts
    /\ fetchCount' = fetchCount + 1
    /\ UNCHANGED <<classifyVars, storeVars, worker, lifeVars>>

\* await cache.put(request, responseToCache); return fetchResponse (v1, v2.0.0);
\* a rejected put is caught by the handler's catch block
CacheFirst_Put(t) ==
    /\ At(t, CacheFirstHandlers, "put")
    /\ \/ /\ store' = CachePut(cacheNames, store, HandlerCache(worker, tasks[t].handler),
                               tasks[t].request.url, tasks[t].fetched)
          /\ tasks' = [tasks EXCEPT ![t].pc = "done", ![t].put = "fulfilled",
                                    ![t].result = tasks[t].fetched]
       \/ /\ tasks' = [Thrown(t) EXCEPT ![t].put = "rejected"]
          /\ UNCHANGED store
    /\ UNCHANGED <<classifyVars, cacheNames, worker, puts, fetchCount, lifeVars>>

\* updateCacheInBackground (v2.0.0): await cache.match(request) and the age test;
\* whatever throws in the function is caught and logged
Background_Match(t) ==
    /\ At(t, CacheFirstHandlers, "bg_match")
    /\ \/ LET entry == CacheMatch(store, HandlerCache(worker, tasks[t].handler),
                                  tasks[t].request.url)
          IN  tasks' = [tasks EXCEPT
                  ![t].bgEntry = entry,
                  ![t].pc = IF StillFresh(entry, MaxAgeOf(tasks[t].handler))
                            THEN "done" ELSE "bg_fetch"]
       \/ tasks' = [tasks EXCEPT ![t].bgEntry = Rejected, ![t].pc = "done"]
    /\ UNCHANGED <<classifyVars, storeVars, worker, puts, fetchCount, lifeVars>>

\* updateCacheInBackground: await fetch(request)
Background_Fetch(t) ==
    /\ At(t, CacheFirstHandlers, "bg_fetch")
    /\ \E r \in Answers :
          tasks' = [tasks EXCEPT ![t].fetched = r,
                                 ![t].pc = IF r # Rejected /\ Ok(r) THEN "bg_put" ELSE "done"]
    /\ fetchCount' = fetchCount + 1
    /\ UNCHANGED <<classifyVars, storeVars, worker, puts, lifeVars>>

\* updateCacheInBackground: await cache.put(request, fresh response)
Background_Put(t) ==
    /\ At(t, CacheFirstHandlers, "bg_put")
    /\ \/ /\ store' = CachePut(cacheNames, store, HandlerCache(worker, tasks[t].handler),
                               tasks[t].request.url, tasks[t].fetched)
          /\ tasks' = [tasks EXCEPT ![t].pc = "done", ![t].put = "fulfilled"]
       \/ /\ tasks' = [tasks EXCEPT ![t].pc = "done", ![t].put = "rejected"]
          /\ UNCHANGED store
    /\ UNCHANGED <<classifyVars, cacheNames, worker, puts, fetchCount, lifeVars>>

\* staleWhileRevalidateStrategy (v3.0.0): await cache.match(request); the fetch is
\* started, and cachedResponse || fetchPromise returned
SWR_Match(t) ==
    /\ At(t, {"staleWhileRevalidateStrategy"}, "match")
    /\ \/ LET cachedResponse == CacheMatch(store, IMAGE_CACHE(worker), tasks[t].request.url)
          IN  tasks' = [tasks EXCEPT ![t].cached = cachedResponse,
                                     ![t].result = SWRReturn(cachedResponse, Pending),
                                     ![t].pc = "fetch"]
       \/ tasks' = Thrown(t)
    /\ UNCHANGED <<classifyVars, storeVars, worker, puts, fetchCount, lifeVars>>

\* staleWhileRevalidateStrategy (v3.0.0): fetchPromise settles: a 2xx answer is
\* put (not awaited) and the answer passed on; a rejection becomes cachedResponse
SWR_Fetch(t) ==
    /\ At(t, {"staleWhileRevalidateStrategy"}, "fetch")
    /\ \E r \in Answers :
          LET fetchPromise == IF r = Rejected THEN tasks[t].cached ELSE r
          IN  /\ tasks' = [tasks EXCEPT
                     ![t].fetched = r, ![t].pc = "done",
                     ![t].result = SWRReturn(tasks[t].cached, fetchPromise)]
              /\ puts' = IF r # Rejected /\ Ok(r)
                         THEN puts \cup {[cache |-> IMAGE_CACHE(worker),
                                          key |-> tasks[t].request.url, response |-> r,
                                          settled |-> "pending"]}
                         ELSE puts
    /\ fetchCount' = fetchCount + 1
    /\ UNCHANGED <<classifyVars, storeVars, worker, lifeVars>>

----------------------------------------------------------------------------
(* Specification SpecImage: image requests handled by one active worker.   *)

ImageRequest == MkRequest("GET", ImageUrl, "image", "no-cors")

\* The entry the image partition can hold for the image when the requests start:
\* none, one stored a day ago, one stored eight days ago
InitialImageEntries == {NoEntry, WithDate(Precached, Now - 1), WithDate(Precached, Now - 8)}

InitImage ==
    /\ worker \in Versions
    /\ cacheNames = <<STATIC_CACHE(worker), IMAGE_CACHE(worker)>>
    /\ \E e \in InitialImageEntries :
          store = [EmptyStore EXCEPT ![IMAGE_CACHE(worker)][ImageUrl] = e]
    /\ tasks = [t \in TaskIds |-> IdleTask]
    /\ puts = {}
    /\ fetchCount = 0
    /\ fetchEvent = [ver |-> worker, request |-> IdleTask.request]
    /\ respondWith = <<>>
    /\ listenerDone = FALSE
    /\ phase = "activated"
    /\ install = IdleInstall
    /\ activation = IdleActivation
    /\ message = IdleMessage
    /\ cleanup = IdleCleanup
    /\ reentry = IdleCleanup
    /\ clock = 0

\* The fetch listener of the active worker, given a request out of a set
Dispatch(t, requests) ==
    \E request \in requests :
        /\ tasks[t].pc = "idle"
        /\ \A u \in TaskIds : u < t => tasks[u].pc # "idle"
        /\ LET called == FetchListener(worker, request)
           IN  /\ Len(called) = 1
               /\ Head(called) \in CacheFirstHandlers \cup {"staleWhileRevalidateStrategy"}
               /\ tasks' = [tasks EXCEPT ![t] =
                     [@ EXCEPT !.request = request, !.handler = Head(called), !.pc = "open"]]
        /\ UNCHANGED <<classifyVars, storeVars, worker, puts, fetchCount, lifeVars>>

OnFetchImage(t) == Dispatch(t, {ImageRequest})

NextImage ==
    \/ \E t \in TaskIds : OnFetchImage(t)
    \/ \E t \in TaskIds : Handler_Open(t)
    \/ \E t \in TaskIds : CacheFirst_Match(t)
    \/ \E t \in TaskIds : CacheFirst_Fetch(t)
    \/ \E t \in TaskIds : CacheFirst_Put(t)
    \/ \E t \in TaskIds : Background_Match(t)
    \/ \E t \in TaskIds : Background_Fetch(t)
    \/ \E t \in TaskIds : Background_Put(t)
    \/ \E t \in TaskIds : SWR_Match(t)
    \/ \E t \in TaskIds : SWR_Fetch(t)
    \/ PutSettles

SpecImage == InitImage /\ [][NextImage]_vars

----------------------------------------------------------------------------
(* Specification SpecStatic: style and font requests handled by one active *)
(* worker (handleStaticRequest, handleFontRequest, cacheFirstStrategy).    *)

StyleRequest == MkRequest("GET", StyleUrl, "style", "no-cors")
FontRequest == MkRequest("GET", FontUrl, "font", "cors")

\* The entry the static partition can hold for the stylesheet when the requests
\* start: none, the one stored at install (no date header), one stored an hour
\* ago (the clock's day), one stored two days ago
InitialStyleEntries ==
    {NoEntry, Precached, WithDate(Precached, Now), WithDate(Precached, Now - 2)}

InitStatic ==
    /\ worker \in Versions
    /\ cacheNames = <<STATIC_CACHE(worker), IMAGE_CACHE(worker)>>
    /\ \E e \in InitialStyleEntries :
          store = [EmptyStore EXCEPT ![STATIC_CACHE(worker)][StyleUrl] = e,
                                     ![IMAGE_CACHE(worker)][ImageUrl] = Precached]
    /\ tasks = [t \in TaskIds |-> IdleTask]
    /\ puts = {}
    /\ fetchCount = 0
    /\ fetchEvent = [ver |-> worker, request |-> IdleTask.request]
    /\ respondWith = <<>>
    /\ listenerDone = FALSE
    /\ phase = "activated"
    /\ install = IdleInstall
    /\ activation = IdleActivation
    /\ message = IdleMessage
    /\ cleanup = IdleCleanup
    /\ reentry = IdleCleanup
    /\ clock = 0

OnFetchStatic(t) == Dispatch(t, {StyleRequest, FontRequest})

NextStatic ==
    \/ \E t \in TaskIds : OnFetchStatic(t)
    \/ \E t \in TaskIds : Handler_Open(t)
    \/ \E t \in TaskIds : CacheFirst_Match(t)
    \/ \E t \in TaskIds : CacheFirst_Fetch(t)
    \/ \E t \in TaskIds : CacheFirst_Put(t)
    \/ \E t \in TaskIds : Background_Match(t)
    \/ \E t \in TaskIds : Background_Fetch(t)
    \/ \E t \in TaskIds : Background_Put(t)
    \/ PutSettles

SpecStatic == InitStatic /\ [][NextStatic]_vars

----------------------------------------------------------------------------
(* Specification SpecDocument: navigations handled by the default branch   *)
(* of the fetch listener: handleDocumentRequest (v2.0.0),                  *)
(* networkFirstStrategy (v3.0.0).                                          *)

\* The fetch listener calls respondWith(networkFirstStrategy(request))
OnFetchNetworkFirst(t) == OnFetch(t) /\ tasks'[t].handler = "networkFirstStrategy"

DocumentRequest == MkRequest("GET", RootUrl, "document", "navigate")

\* The entry the dynamic partition can hold for the document when the requests
\* start: none, one stored this hour, one stored a day ago
InitialDocumentEntries == {NoEntry, WithDate(Precached, Now), WithDate(Precached, Now - 1)}

InitDocument ==
    /\ worker \in {"v2", "v3"}
    /\ cacheNames = <<STATIC_CACHE(worker), DYNAMIC_CACHE(worker)>>
    /\ \E e \in InitialDocumentEntries :
          store = [EmptyStore EXCEPT ![DYNAMIC_CACHE(worker)][RootUrl] = e,
                                     ![STATIC_CACHE(worker)][StyleUrl] = Precached]
    /\ tasks = [t \in TaskIds |-> IdleTask]
    /\ puts = {}
    /\ fetchCount = 0
    /\ fetchEvent = [ver |-> worker, request |-> IdleTask.request]
    /\ respondWith = <<>>
    /\ listenerDone = FALSE
    /\ phase = "activated"
    /\ install = IdleInstall
    /\ activation = IdleActivation
    /\ message = IdleMessage
    /\ cleanup = IdleCleanup
    /\ reentry = IdleCleanup
    /\ clock = 0

\* The fetch listener's last branch in v2.0.0:
\* respondWith(handleDocumentRequest(request))
OnFetchDocument(t) == Dispatch(t, {DocumentRequest}) /\ worker = "v2"

\* The fetch listener's last branch in v3.0.0:
\* respondWith(networkFirstStrategy(request))
OnFetchDefault(t) == OnFetchNetworkFirst(t) /\ tasks'[t].request = DocumentRequest

NextDocument ==
    \/ \E t \in TaskIds : OnFetchDocument(t)
    \/ \E t \in TaskIds : OnFetchDefault(t)
    \/ \E t \in TaskIds : NetworkFirst_Fetch(t)
    \/ \E t \in TaskIds : NetworkFirst_Open(t)
    \/ \E t \in TaskIds : NetworkFirst_CatchMatch(t)
    \/ \E t \in TaskIds : Handler_Open(t)
    \/ \E t \in TaskIds : CacheFirst_Match(t)
    \/ \E t \in TaskIds : CacheFirst_Fetch(t)
    \/ \E t \in TaskIds : CacheFirst_Put(t)
    \/ \E t \in TaskIds : Background_Match(t)
    \/ \E t \in TaskIds : Background_Fetch(t)
    \/ \E t \in TaskIds : Background_Put(t)
    \/ PutSettles

SpecDocument == InitDocument /\ [][NextDocument]_vars

----------------------------------------------------------------------------
(* Specification SpecV3: the three strategy executors of the v3.0.0 worker *)
(* side by side, for document, API, style and image requests.              *)

V3Executors == {"cacheFirstStrategy", "networkFirstStrategy", "staleWhileRevalidateStrategy"}

InitV3 ==
    /\ worker = "v3"
    /\ cacheNames = <<STATIC_CACHE(worker), IMAGE_CACHE(worker)>>
    /\ \E root, style, image \in {NoEntry, Precached} :
          store = [EmptyStore EXCEPT ![STATIC_CACHE(worker)][RootUrl] = root,
                                     ![STATIC_CACHE(worker)][StyleUrl] = style,
                                     ![IMAGE_CACHE(worker)][ImageUrl] = image]
    /\ tasks = [t \in TaskIds |-> IdleTask]
    /\ puts = {}
    /\ fetchCount = 0
    /\ fetchEvent = [ver |-> worker, request |-> IdleTask.request]
    /\ respondWith = <<>>
    /\ listenerDone = FALSE
    /\ phase = "activated"
    /\ install = IdleInstall
    /\ activation = IdleActivation
    /\ message = IdleMessage
    /\ cleanup = IdleCleanup
    /\ reentry = IdleCleanup
    /\ clock = 0

\* The fetch listener calls respondWith with cacheFirstStrategy or
\* staleWhileRevalidateStrategy
OnFetchCached(t) == Dispatch(t, {StyleRequest, ImageRequest})

NextV3 ==
    \/ \E t \in TaskIds : OnFetchNetworkFirst(t)
    \/ \E t \in TaskIds : OnFetchCached(t)
    \/ \E t \in TaskIds : NetworkFirst_Fetch(t)
    \/ \E t \in TaskIds : NetworkFirst_Open(t)
    \/ \E t \in TaskIds : NetworkFirst_CatchMatch(t)
    \/ \E t \in TaskIds : Handler_Open(t)
    \/ \E t \in TaskIds : CacheFirst_Match(t)
    \/ \E t \in TaskIds : CacheFirst_Fetch(t)
    \/ \E t \in TaskIds : Background_Fetch(t)
    \/ \E t \in TaskIds : Background_Put(t)
    \/ \E t \in TaskIds : SWR_Match(t)
    \/ \E t \in TaskIds : SWR_Fetch(t)
    \/ PutSettles

SpecV3 == InitV3 /\ [][NextV3]_vars

----------------------------------------------------------------------------
(* Specification SpecLife: one worker version is installed and activated   *)
(* over the partitions earlier versions left, then handles messages.       *)

\* The asset lists, cut to the entries that tell the lists apart: two critical
\* assets, one image, one external resource (v2.0.0, v3.0.0); v1 has one list.
CRITICAL_ASSETS == {RootUrl, StyleUrl}
IMAGE_ASSETS == {ImageUrl}
EXTERNAL_RESOURCES == {FontCssUrl}
STATIC_ASSETS == {RootUrl, StyleUrl, ImageUrl}

\* The assets a caching function maps over
AssetsOf(f) ==
    CASE f = "cacheStaticAssets" -> CRITICAL_ASSETS
      [] f = "cacheImages" -> IMAGE_ASSETS
      [] f = "cacheExternalResources" -> EXTERNAL_RESOURCES
      [] f = "addAll" -> STATIC_ASSETS

\* The mutant of PartitionOf: every caching function opens the static partition
PartitionOf_AllStatic(ver, f) == STATIC_CACHE(ver)

\* The partition a caching function opens
PartitionOf(ver, f) == IF f = "cacheImages" THEN IMAGE_CACHE(ver) ELSE STATIC_CACHE(ver)

\* The caching functions of a version's install listener
FnsOf(ver) ==
    IF ver = "v1" THEN {"addAll"}
    ELSE {"cacheStaticAssets", "cacheImages", "cacheExternalResources"}

FnOf(ver, a) == CHOOSE f \in FnsOf(ver) : a \in AssetsOf(f)

\* try { ... } catch (error) { console.error(...) } around a caching function's
\* body: the async function fulfils whatever happened inside
TryCatchLogged(outcome) == "fulfilled"

\* The mutant of CatchLogged: the last .catch is missing
CatchMissing(outcome) == outcome

\* promise.catch(error => console.error(...)): a rejection becomes a fulfilment
CatchLogged(outcome) == IF outcome = "rejected" THEN "fulfilled" ELSE outcome

\* The partitions an earlier version can have left when this one is deployed
InitialStorages(ver) ==
    CASE ver = "v1" -> {<<>>}
      [] ver = "v2" -> {<<STATIC_CACHE("v1")>>,
                        <<STATIC_CACHE("v1"), DYNAMIC_CACHE("v1")>>,
                        <<STATIC_CACHE("v1"), DYNAMIC_CACHE("v1"), IMAGE_CACHE("v1")>>}
      [] ver = "v3" -> {<<STATIC_CACHE("v2"), IMAGE_CACHE("v2")>>,
                        <<STATIC_CACHE("v2"), IMAGE_CACHE("v2"), DYNAMIC_CACHE("v2")>>,
                        <<STATIC_CACHE("v2"), IMAGE_CACHE("v2"), DYNAMIC_CACHE("v2"),
                          ForeignCache>>}

InitLife ==
    /\ worker \in Versions
    /\ cacheNames \in InitialStorages(worker)
    /\ store = [n \in AllCacheNames |->
                   IF Has(cacheNames, n) THEN [EmptyCache EXCEPT ![RootUrl] = Precached]
                   ELSE EmptyCache]
    /\ phase = "installing"
    /\ install = [IdleInstall EXCEPT
                     !.fns = [f \in InstallFns |-> IF f \in FnsOf(worker) THEN "open"
                                                   ELSE "unused"]]
    /\ activation = IdleActivation
    /\ message = IdleMessage
    /\ cleanup = IdleCleanup
    /\ reentry = IdleCleanup
    /\ clock = 0
    /\ tasks = [t \in TaskIds |-> IdleTask]
    /\ puts = {}
    /\ fetchCount = 0
    /\ fetchEvent = [ver |-> worker, request |-> IdleTask.request]
    /\ respondWith = <<>>
    /\ listenerDone = FALSE

lifeOther == <<classifyVars, worker, tasks, puts, cleanup, reentry, clock>>

\* cacheStaticAssets / cacheImages / cacheExternalResources (v2.0.0, v3.0.0):
\* await caches.open(partition), then one task per asset is started; a rejected
\* open is caught by the function's own try/catch.
Install_Open(f) ==
    /\ phase = "installing" /\ worker # "v1" /\ install.fns[f] = "open"
    /\ \/ /\ cacheNames' = Opened(cacheNames, PartitionOf(worker, f))
          /\ install' = [install EXCEPT
                !.fns[f] = "running",
                !.assets = [a \in Keys |-> IF a \in AssetsOf(f)
                                           THEN [pc |-> "fetch", fetched |-> Pending]
                                           ELSE install.assets[a]]]
       \/ /\ install' = [install EXCEPT !.fns[f] = "openFailed"]
          /\ UNCHANGED cacheNames
    /\ UNCHANGED <<lifeOther, store, fetchCount, phase, activation, message>>

\* One asset's task: await fetch(asset) (v3.0.0), the fetch inside cache.add
\* (v2.0.0). A rejection is caught per asset; a non-2xx answer is not stored
\* (v3.0.0: if (response.ok); v2.0.0: cache.add rejects and is caught).
Install_Fetch(a) ==
    /\ phase = "installing" /\ worker # "v1" /\ install.assets[a].pc = "fetch"
    /\ \E r \in FetchOutcomes(Precached.body) :
          install' = [install EXCEPT
              !.assets[a] = [pc |-> IF r = Rejected THEN "fetchFailed"
                                    ELSE IF Ok(r) THEN "put" ELSE "notOk",
                             fetched |-> r]]
    /\ UNCHANGED <<lifeOther, storeVars, fetchCount, phase, activation, message>>

\* One asset's task: await cache.put(asset, response); a rejection is caught
Install_Put(a) ==
    /\ phase = "installing" /\ worker # "v1" /\ install.assets[a].pc = "put"
    /\ \/ /\ store' = CachePut(cacheNames, store, PartitionOf(worker, FnOf(worker, a)), a,
                               install.assets[a].fetched)
          /\ install' = [install EXCEPT !.assets[a].pc = "stored"]
       \/ /\ install' = [install EXCEPT !.assets[a].pc = "putFailed"]
          /\ UNCHANGED store
    /\ UNCHANGED <<lifeOther, cacheNames, fetchCount, phase, activation, message>>

\* The mutant of FnSettled: the function resolves with its first settled asset
FnSettled_FirstAsset(f) ==
    \/ install.fns[f] = "openFailed"
    \/ /\ install.fns[f] = "running"
       /\ \E a \in AssetsOf(f) :
             install.assets[a].pc \in {"stored", "notOk", "fetchFailed", "putFailed"}

\* A caching function has settled: its open failed, or every asset task settled
FnSettled(f) ==
    \/ install.fns[f] = "openFailed"
    \/ /\ install.fns[f] = "running"
       /\ \A a \in AssetsOf(f) :
             install.assets[a].pc \in {"stored", "notOk", "fetchFailed", "putFailed"}

\* The promise the install listener gives to waitUntil (v2.0.0, v3.0.0):
\* Promise.all of the three functions, then skipWaiting, then .catch
InstallChain(fnOutcomes) ==
    CatchLogged(IF \A f \in DOMAIN fnOutcomes : fnOutcomes[f] = "fulfilled"
                THEN "fulfilled" ELSE "rejected")

\* install listener (v2.0.0, v3.0.0): the three functions have settled
Install_Settle ==
    /\ phase = "installing" /\ worker # "v1" /\ install.promise = "pending"
    /\ \A f \in FnsOf(worker) : FnSettled(f)
    /\ LET outcomes == [f \in FnsOf(worker) |->
                           TryCatchLogged(IF install.fns[f] = "openFailed"
                                          THEN "rejected" ELSE "fulfilled")]
           promise == InstallChain(outcomes)
       IN  /\ install' = [install EXCEPT
                 !.promise = promise,
                 !.skipWaiting = \A f \in FnsOf(worker) : outcomes[f] = "fulfilled"]
           /\ phase' = IF promise = "fulfilled" THEN "installed" ELSE "redundant"
    /\ UNCHANGED <<lifeOther, storeVars, fetchCount, activation, message>>

\* install listener (v1): caches.open(STATIC_CACHE) settles
Install_v1_Open ==
    /\ phase = "installing" /\ worker = "v1" /\ install.fns["addAll"] = "open"
    /\ \/ /\ cacheNames' = Opened(cacheNames, STATIC_CACHE(worker))
          /\ install' = [install EXCEPT !.fns["addAll"] = "running"]
       \/ /\ install' = [install EXCEPT !.fns["addAll"] = "openFailed"]
          /\ UNCHANGED cacheNames
    /\ UNCHANGED <<lifeOther, store, fetchCount, phase, activation, message>>

\* install listener (v1): cache.addAll(STATIC_ASSETS) settles: every asset is
\* stored when every fetch answered 2xx and the write went through, else none
Install_v1_AddAll ==
    /\ phase = "installing" /\ worker = "v1" /\ install.fns["addAll"] = "running"
    /\ \E got \in [STATIC_ASSETS -> FetchOutcomes(Precached.body)], written \in BOOLEAN :
          LET allOk == \A a \in STATIC_ASSETS : got[a] # Rejected /\ Ok(got[a])
          IN  /\ install' = [install EXCEPT
                    !.fns["addAll"] = IF allOk /\ written THEN "added" ELSE "addFailed",
                    !.assets = [a \in Keys |-> IF a \in STATIC_ASSETS
                                  THEN [pc |-> IF allOk /\ written THEN "stored"
                                               ELSE IF got[a] = Rejected THEN "fetchFailed"
                                               ELSE IF ~Ok(got[a]) THEN "notOk"
                                               ELSE "putFailed",
                                        fetched |-> got[a]]
                                  ELSE install.assets[a]]]
              /\ store' = IF allOk /\ written /\ Has(cacheNames, STATIC_CACHE(worker))
                          THEN [store EXCEPT ![STATIC_CACHE(worker)] =
                                   [k \in Keys |-> IF k \in STATIC_ASSETS THEN got[k] ELSE @[k]]]
                          ELSE store
    /\ UNCHANGED <<lifeOther, cacheNames, fetchCount, phase, activation, message>>

\* install listener (v1): open().then(addAll).then(skipWaiting).catch(log)
Install_v1_Settle ==
    /\ phase = "installing" /\ worker = "v1" /\ install.promise = "pending"
    /\ install.fns["addAll"] \in {"openFailed", "added", "addFailed"}
    /\ LET promise == CatchLogged(IF install.fns["addAll"] = "added" THEN "fulfilled"
                                  ELSE "rejected")
       IN  /\ install' = [install EXCEPT !.promise = promise,
                                         !.skipWaiting = install.fns["addAll"] = "added"]
           /\ phase' = IF promise = "fulfilled" THEN "installed" ELSE "redundant"
    /\ UNCHANGED <<lifeOther, storeVars, fetchCount, activation, message>>

\* The names in a sequence of partition names
Names(names) == {names[i] : i \in 1..Len(names)}

\* caches.delete(n): the sequence of names without n
RECURSIVE Without(_, _)
Without(names, n) ==
    IF names = <<>> THEN <<>>
    ELSE IF Head(names) = n THEN Without(Tail(names), n)
    ELSE <<Head(names)>> \o Without(Tail(names), n)

\* The mutant of OldCaches: only the static partition's name is compared
OldCaches_StaticOnly(ver, names) == {n \in names : n # STATIC_CACHE(ver)}

\* cleanupOldCaches / the v1 activate listener: the names the purge deletes,
\* cacheNames.filter(cacheName => !currentCaches.includes(cacheName))
OldCaches(ver, names) == {n \in names : n \notin currentCaches(ver)}

\* The activate event is dispatched to the installed worker. startNames and
\* startStore keep what existed when the listener started.
OnActivate ==
    /\ phase = "installed"
    /\ phase' = "activating"
    /\ activation' = [IdleActivation EXCEPT !.pc = "keys",
                                            !.startNames = Names(cacheNames),
                                            !.startStore = store]
    /\ install' = [IdleInstall EXCEPT !.promise = install.promise,
                                      !.skipWaiting = install.skipWaiting]
    /\ UNCHANGED <<lifeOther, storeVars, fetchCount, message>>

\* cleanupOldCaches: await caches.keys(); every delete is started at once
Activate_Keys ==
    /\ phase = "activating" /\ activation.pc = "keys"
    /\ \/ activation' = [activation EXCEPT
              !.pc = "deleting",
              !.deleting = OldCaches(worker, Names(cacheNames))]
       \/ activation' = [activation EXCEPT !.pc = "deleting", !.failed = TRUE]
    /\ UNCHANGED <<lifeOther, storeVars, fetchCount, phase, install, message>>

\* One caches.delete(cacheName) of the purge settles
Activate_Delete(n) ==
    /\ n \in activation.deleting
    /\ \/ /\ cacheNames' = Without(cacheNames, n)
          /\ store' = [store EXCEPT ![n] = EmptyCache]
          /\ activation' = [activation EXCEPT !.deleting = @ \ {n},
                                              !.purged = @ \cup {n}]
       \/ /\ activation' = [activation EXCEPT !.deleting = @ \ {n}, !.failed = TRUE]
          /\ UNCHANGED storeVars
    /\ UNCHANGED <<lifeOther, fetchCount, phase, install, message>>

\* Promise.all(deletePromises) has settled (fulfilled, or rejected at the first
\* failure). v2.0.0 / v3.0.0: the failure is caught and clients.claim() follows;
\* v1: there is no catch, claim is skipped; the worker is active either way.
Activate_Claim ==
    /\ phase = "activating" /\ activation.pc = "deleting"
    /\ activation.deleting = {} \/ activation.failed
    /\ activation' = [activation EXCEPT
          !.pc = IF worker = "v3" THEN "notify" ELSE "done",
          !.claimed = IF worker = "v1" THEN ~activation.failed ELSE TRUE]
    /\ phase' = "activated"
    /\ UNCHANGED <<lifeOther, storeVars, fetchCount, install, message>>

\* v3.0.0 activate listener, the then() after clients.claim(): notifyClients
\* awaits self.clients.matchAll() and posts SW_UPDATED to every client; a
\* rejecting matchAll is caught by the listener's catch
Activate_Notify ==
    /\ worker = "v3" /\ activation.pc = "notify"
    /\ \/ activation' = [activation EXCEPT !.pc = "done", !.notified = TRUE]
       \/ activation' = [activation EXCEPT !.pc = "done"]
    /\ UNCHANGED <<lifeOther, storeVars, fetchCount, phase, install, message>>

\* How many messages the page sends
MaxMessages == 1

\* The partition names the page puts in an UPDATE_CACHE message
MessageCacheNames == {ForeignCache, STATIC_CACHE("v2")}

\* The URL lists the page puts in a message
MessageUrls == {<<>>, <<RootUrl, ApiUrl>>}

\* message listener (v2.0.0), case 'UPDATE_CACHE': updateSpecificCache(data) starts
OnMessage_UpdateCache ==
    /\ phase = "activated" /\ worker = "v2"
    /\ message.pc = "idle" /\ message.handled < MaxMessages
    /\ \E name \in MessageCacheNames, urls \in MessageUrls :
          message' = [message EXCEPT !.pc = "open", !.type = "UPDATE_CACHE",
                                     !.cacheName = name, !.urls = urls,
                                     !.handled = @ + 1, !.isArray = TRUE]
    /\ UNCHANGED <<lifeOther, storeVars, fetchCount, phase, install, activation>>

\* preloadContent opening the static partition instead
PreloadPartition_Static(ver) == STATIC_CACHE(ver)

\* preloadContent: caches.open(DYNAMIC_CACHE)
PreloadPartition(ver) == DYNAMIC_CACHE(ver)

\* message listener (v2.0.0), case 'PRELOAD_CONTENT': preloadContent(data) starts;
\* it returns at once when data is not an array
OnMessage_PreloadContent ==
    /\ phase = "activated" /\ worker = "v2"
    /\ message.pc = "idle" /\ message.handled < MaxMessages
    /\ \E isArray \in BOOLEAN, urls \in MessageUrls :
          message' = IF isArray
                     THEN [message EXCEPT !.pc = "open", !.type = "PRELOAD_CONTENT",
                                          !.cacheName = PreloadPartition(worker),
                                          !.urls = urls, !.handled = @ + 1,
                                          !.isArray = TRUE]
                     ELSE [message EXCEPT !.type = "PRELOAD_CONTENT", !.urls = <<>>,
                                          !.handled = @ + 1, !.isArray = FALSE]
    /\ UNCHANGED <<lifeOther, storeVars, fetchCount, phase, install, activation>>

\* The message task moves to its next URL, or ends
NextUrl(m) ==
    [m EXCEPT !.urls = Tail(@), !.fetched = Pending,
              !.pc = IF Len(m.urls) > 1 THEN "fetch" ELSE "idle"]

\* updateSpecificCache / preloadContent: await caches.open(cacheName); the name
\* is the caller's (UPDATE_CACHE) or DYNAMIC_CACHE; nothing catches a rejection
Message_Open ==
    /\ message.pc = "open"
    /\ \/ /\ cacheNames' = Opened(cacheNames, message.cacheName)
          /\ message' = [message EXCEPT
                !.pc = IF message.urls = <<>> THEN "idle" ELSE "fetch"]
       \/ /\ message' = [message EXCEPT !.pc = "idle", !.urls = <<>>]
          /\ UNCHANGED cacheNames
    /\ UNCHANGED <<lifeOther, store, fetchCount, phase, install, activation>>

\* updateSpecificCache / preloadContent: await fetch(url) for the next URL; the
\* network serves body n while the n-th message is handled
Message_Fetch ==
    /\ message.pc = "fetch"
    /\ \E r \in FetchOutcomes(message.handled) :
          message' = IF r # Rejected /\ Ok(r)
                     THEN [message EXCEPT !.pc = "put", !.fetched = r]
                     ELSE NextUrl(message)
    /\ UNCHANGED <<lifeOther, storeVars, fetchCount, phase, install, activation>>

\* updateSpecificCache / preloadContent: await cache.put(url, response)
Message_Put ==
    /\ message.pc = "put"
    /\ \/ store' = CachePut(cacheNames, store, message.cacheName, Head(message.urls),
                            message.fetched)
       \/ UNCHANGED store
    /\ message' = NextUrl(message)
    /\ UNCHANGED <<lifeOther, cacheNames, fetchCount, phase, install, activation>>

\* The steps of one deployment: the worker installs, then activates
NextDeploy ==
    \/ \E f \in InstallFns : Install_Open(f)
    \/ \E a \in Keys : Install_Fetch(a)
    \/ \E a \in Keys : Install_Put(a)
    \/ Install_Settle
    \/ Install_v1_Open
    \/ Install_v1_AddAll
    \/ Install_v1_Settle
    \/ OnActivate
    \/ Activate_Keys
    \/ \E n \in AllCacheNames : Activate_Delete(n)
    \/ Activate_Claim
    \/ Activate_Notify

\* message listener (all versions), case 'SKIP_WAITING': self.skipWaiting() sets
\* the worker's skip-waiting flag at once, whatever the worker's state
OnMessage_SkipWaiting ==
    /\ phase \in {"installing", "installed", "activating", "activated"}
    /\ message.pc = "idle" /\ message.handled < MaxMessages
    /\ message' = [message EXCEPT !.type = "SKIP_WAITING", !.handled = @ + 1]
    /\ install' = [install EXCEPT !.skipWaiting = TRUE]
    /\ UNCHANGED <<lifeOther, storeVars, fetchCount, phase, activation>>

NextInstall ==
    \/ NextDeploy
    \/ OnMessage_SkipWaiting

\* The deployment with the page's SKIP_WAITING messages, which reach a worker
\* in any state
SpecInstall == InitLife /\ [][NextInstall]_vars

NextLife ==
    \/ NextDeploy
    \/ OnMessage_UpdateCache
    \/ OnMessage_PreloadContent
    \/ Message_Open
    \/ Message_Fetch
    \/ Message_Put

SpecLife == InitLife /\ [][NextLife]_vars

\* The deployment alone, with the steps the runtime owes eventually taken:
\* every promise settles, and an installed worker is activated. The page's
\* messages, which reach only an active worker, are left out.
FairSpecDeploy == InitLife /\ [][NextDeploy]_vars /\ WF_vars(NextDeploy)

----------------------------------------------------------------------------
(* Properties of the fetch listeners (SpecClassify).                       *)

IsHttpUrl(url) == StartsWith(url, "http://") \/ StartsWith(url, "https://")

\* A GET request with an http or https URL, given to the v3.0.0 listener
ListenedGetHttp_v3 ==
    /\ listenerDone
    /\ fetchEvent.ver = "v3"
    /\ fetchEvent.request.method = "GET"
    /\ IsHttpUrl(fetchEvent.request.url)

\* C2: in the v3.0.0 fetch listener every GET http(s) request whose URL path
\* starts with /api/ is handed to networkFirstStrategy, whatever follows the
\* prefix (file name, extension, query string).
C2_ApiPathIsNetworkFirst ==
    (ListenedGetHttp_v3 /\ StartsWith(Pathname(fetchEvent.request.url), "/api/"))
        => respondWith = <<"networkFirstStrategy">>

\* C3: in the v3.0.0 fetch listener every GET http(s) request whose URL path ends
\* in an image extension (jpg, jpeg, png, gif, webp, avif, svg) is handed to
\* staleWhileRevalidateStrategy, for every host, path and query string.
C3_ImageExtensionIsStaleWhileRevalidate ==
    (ListenedGetHttp_v3
        /\ \E ext \in IMAGE_EXTENSIONS :
              EndsWith(ToLowerCase(Pathname(fetchEvent.request.url)), ext))
        => respondWith = <<"staleWhileRevalidateStrategy">>

\* C4: in every worker version the fetch listener calls respondWith exactly once
\* for a GET request with an http(s) URL, and not at all (the request passes
\* through, no executor runs, no cache is read or written) for a request whose
\* method is not GET or whose scheme is not http(s).
C4_ClassificationTotalAndExclusive ==
    listenerDone =>
        IF fetchEvent.request.method = "GET" /\ IsHttpUrl(fetchEvent.request.url)
        THEN Len(respondWith) = 1
        ELSE Len(respondWith) = 0

----------------------------------------------------------------------------
(* Properties of the network-first executors (Spec).                       *)

NetworkFirstDone(t) ==
    /\ tasks[t].pc = "done"
    /\ tasks[t].handler \in {"networkFirstStrategy", "handleAPIRequest"}

\* C1: whenever the network fetch of a network-first request resolved with a
\* response, the handler returns that response, not a cached entry and not a
\* synthesized fallback, whatever the cache open and put did.
C1_NetworkResponseIsReturned ==
    \A t \in TaskIds :
        (NetworkFirstDone(t) /\ tasks[t].fetched \notin {Pending, Rejected})
            => tasks[t].result = tasks[t].fetched

\* C9: when the network fetch of a network-first request rejected and the dynamic
\* partition held an entry for the request, the handler returns exactly that
\* entry, whatever the static and image partitions hold for the same request.
C9_DynamicEntryIsReturned ==
    \A t \in TaskIds :
        (NetworkFirstDone(t) /\ tasks[t].fetched = Rejected
            /\ tasks[t].dynamicEntry \notin {Pending, NoEntry})
            => tasks[t].result = tasks[t].dynamicEntry

\* C10: when the network fetch of a network-first request rejected and no
\* partition held an entry for it, the handler does not reject: it returns the
\* offline page for a navigation and the 503 JSON error for any other request.
C10_TotalFailureIsSynthesized ==
    \A t \in TaskIds :
        (NetworkFirstDone(t) /\ tasks[t].fetched = Rejected /\ tasks[t].anyEntry = NoEntry)
            => tasks[t].result = IF tasks[t].request.mode = "navigate"
                                 THEN generateOfflineFallback
                                 ELSE generateAPIErrorResponse

----------------------------------------------------------------------------
(* Properties of install, activation and messages (SpecLife).              *)

\* The activate handler has completed
Activated == phase = "activated"

\* caches.keys() and every caches.delete() of the purge fulfilled
PurgeFulfilled == ~activation.failed /\ activation.deleting = {}

\* No partition of the worker's three names was deleted or emptied by the purge
CurrentPartitionsKept ==
    /\ activation.purged \cap currentCaches(worker) = {}
    /\ \A n \in activation.startNames \cap currentCaches(worker) :
          /\ Has(cacheNames, n)
          /\ \A k \in Keys : activation.startStore[n][k] # NoEntry => store[n][k] # NoEntry

\* Every partition that existed at the start and is not one of the worker's three
\* names has been deleted
OldPartitionsPurged ==
    \A n \in activation.startNames \ currentCaches(worker) : n \in activation.purged

C6_OnlyCurrentPartitionsExist ==
    (Activated /\ PurgeFulfilled) => Names(cacheNames) \subseteq currentCaches(worker)

\* The partition the claim names for a listed asset: images in the image
\* partition, critical assets and external resources in the static partition
ExpectedPartition(ver, a) == IF a \in IMAGE_ASSETS THEN IMAGE_CACHE(ver) ELSE STATIC_CACHE(ver)

ListedAssets == CRITICAL_ASSETS \cup IMAGE_ASSETS \cup EXTERNAL_RESOURCES

\* The install of a v2.0.0 / v3.0.0 worker has completed
InstalledV23 == phase = "installed" /\ worker \in {"v2", "v3"}

\* The fetch of a listed asset answered with a 2xx status
FetchedOk(a) == install.assets[a].fetched \notin {Pending, Rejected} /\ Ok(install.assets[a].fetched)

\* The fetch of a listed asset failed, or answered outside 2xx
FetchFailed(a) == install.assets[a].pc \in {"fetchFailed", "notOk"}

\* No entry was written for a listed asset, in any partition of the worker
NothingWritten(a) == \A n \in currentCaches(worker) : store[n][a] = NoEntry

\* C7 as stated: after the install of a v2.0.0 / v3.0.0 worker, every listed asset
\* whose fetch succeeded with 2xx is stored in its partition and no entry is
\* written for an asset whose fetch failed.
C7_FetchedAssetIsStored ==
    InstalledV23 =>
        \A a \in ListedAssets :
            /\ FetchedOk(a) => store[ExpectedPartition(worker, a)][a] = install.assets[a].fetched
            /\ FetchFailed(a) => NothingWritten(a)

\* C7 (amended): after the install of a v2.0.0 / v3.0.0 worker, every listed asset
\* whose fetch succeeded with 2xx and whose cache write fulfilled is stored in its
\* partition, whatever happened to the other assets; no entry is written for an
\* asset whose fetch failed or answered outside 2xx, nor for one whose write failed.
C7_WrittenAssetIsStored ==
    InstalledV23 =>
        \A a \in ListedAssets :
            /\ (FetchedOk(a) /\ install.assets[a].pc # "putFailed")
                  => store[ExpectedPartition(worker, a)][a] = install.assets[a].fetched
            /\ (FetchFailed(a) \/ install.assets[a].pc = "putFailed") => NothingWritten(a)

\* C7 witness: one critical asset's fetch failed, the other critical asset and
\* the image are stored
C7_Witness ==
    /\ InstalledV23
    /\ install.assets[StyleUrl].pc = "fetchFailed"
    /\ store[STATIC_CACHE(worker)][RootUrl] # NoEntry
    /\ store[IMAGE_CACHE(worker)][ImageUrl] # NoEntry
    /\ store[STATIC_CACHE(worker)][StyleUrl] = NoEntry

\* C8: in every version the promise given to the install event's waitUntil never
\* rejects, whatever fetches, opens and writes fail, and the worker always
\* becomes installed and then active.
C8_InstallAlwaysCompletes ==
    /\ [](install.promise # "rejected" /\ phase # "redundant")
    /\ (phase = "installing") ~> (phase = "installed")
    /\ (phase = "installed") ~> (phase = "activated")

\* C8 witness: an install that completed although a partition could not be
\* opened, or (v1) addAll rejected
C8_Witness ==
    /\ phase = "installed" /\ install.promise = "fulfilled"
    /\ \E f \in InstallFns : install.fns[f] \in {"openFailed", "addFailed"}

----------------------------------------------------------------------------
(* Properties of the network-first write (Spec).                           *)

\* The un-awaited cache.put p of networkFirstStrategy settles in this step
PutSettling(p, how) ==
    /\ p \in puts /\ p.settled = "pending"
    /\ [p EXCEPT !.settled = how] \in puts'

\* The awaited cache.put of handleAPIRequest (v2.0.0) settles in this step
ApiPutSettling(t, how) ==
    /\ tasks[t].handler = "handleAPIRequest" /\ tasks[t].pc = "put"
    /\ tasks'[t].pc = IF how = "fulfilled" THEN "done" ELSE "catch_open"

\* The store after writing one response under one key of the dynamic partition
DynamicEntrySet(key, r) == [store EXCEPT ![DYNAMIC_CACHE(worker)][key] = r]

\* Every step of a network-first handler that settles a cache write, either way,
\* leaves the live response under the request's key in the dynamic partition
\* and nothing else changed; no other step of the handlers changes an entry
WritesThrough(outcomes) ==
    /\ \A p \in puts : \A how \in outcomes :
          PutSettling(p, how) => store' = DynamicEntrySet(p.key, p.response)
    /\ \A t \in TaskIds : \A how \in outcomes :
          ApiPutSettling(t, how) => store' = DynamicEntrySet(tasks[t].request.url, tasks[t].fetched)
    /\ store' # store =>
          \/ \E p \in puts : PutSettling(p, "fulfilled")
          \/ \E t \in TaskIds : ApiPutSettling(t, "fulfilled")

\* C11 as stated: once the cache write of a network-first request with a 2xx
\* answer has settled, the dynamic partition's entry for the request is the live
\* response, whatever was stored before, and no other key or partition changed.
C11_SettledWriteStoresLive ==
    [][WritesThrough({"fulfilled", "rejected"})]_vars

\* C11 (amended): once the cache write of a network-first request with a 2xx
\* answer has fulfilled, the dynamic partition's entry for the request is the
\* live response, whatever was stored before, and no other key or partition
\* changed; a write that rejects changes nothing.
C11_FulfilledWriteStoresLive ==
    [][/\ WritesThrough({"fulfilled"})
       /\ (\E p \in puts : PutSettling(p, "rejected")) => store' = store
       /\ (\E t \in TaskIds : ApiPutSettling(t, "rejected")) => store' = store]_vars

\* C11 witness: a fulfilled write replaced the entry an earlier request stored
C11_Witness ==
    \E p, q \in puts :
        /\ p.key = q.key /\ p.response.body < q.response.body
        /\ p.settled = "fulfilled" /\ q.settled = "fulfilled"
        /\ store[DYNAMIC_CACHE(worker)][q.key] = q.response

----------------------------------------------------------------------------
(* Properties of the image handlers (SpecImage).                           *)

\* The lookup of the handler of task t found an entry
LookupHit(t) == tasks[t].cached \notin {Pending, NoEntry}

\* C12: in staleWhileRevalidateStrategy (v3.0.0), when the image partition holds
\* an entry for the request at lookup time, the handler's result is that entry
\* from the lookup on: while the parallel fetch is pending, and after it
\* succeeded or failed.
C12_HitIsReturnedWithoutFetch ==
    \A t \in TaskIds :
        (tasks[t].handler = "staleWhileRevalidateStrategy" /\ LookupHit(t))
            => tasks[t].result = tasks[t].cached

\* C12 witness: the entry has been returned and the fetch has not settled
C12_Witness ==
    \E t \in TaskIds :
        /\ tasks[t].handler = "staleWhileRevalidateStrategy" /\ LookupHit(t)
        /\ tasks[t].pc = "fetch" /\ tasks[t].fetched = Pending
        /\ tasks[t].result = tasks[t].cached

\* The stale-while-revalidate handlers the staleness bound is stated for
RevalidatingHandler(t) ==
    \/ worker = "v3" /\ tasks[t].handler = "staleWhileRevalidateStrategy"
    \/ worker = "v2" /\ tasks[t].handler = "handleImageRequest"

\* The 2xx responses whose cache write under a key has settled
SettledWrites(key) ==
    {p.response : p \in {q \in puts : q.key = key /\ q.settled # "pending"}}
        \cup {tasks[u].fetched : u \in {v \in TaskIds : tasks[v].request.url = key
                                                       /\ tasks[v].put # "none"}}

\* A handler that looked the request up and ran to its end has fetched
EveryRequestFetches ==
    \A t \in TaskIds :
        (RevalidatingHandler(t) /\ tasks[t].pc = "done" /\ tasks[t].cached # Pending)
            => tasks[t].fetched # Pending

\* The entry the next request will be answered with is at least as new as
\* every fetched response whose cache write has settled
NextAnswerIsAtMostOneCycleStale ==
    worker \in {"v2", "v3"} =>
        \A w \in SettledWrites(ImageUrl) :
            /\ store[IMAGE_CACHE(worker)][ImageUrl] # NoEntry
            /\ store[IMAGE_CACHE(worker)][ImageUrl].body >= w.body

\* C13: every stale-while-revalidate request issues a network fetch, and once
\* that fetch has succeeded and its cache write has settled, the next request
\* for the resource is answered with that response or a newer one (v3.0.0
\* staleWhileRevalidateStrategy, v2.0.0 handleImageRequest).
C13_AtMostOneFetchCycleStale ==
    EveryRequestFetches /\ NextAnswerIsAtMostOneCycleStale

\* Any version's image handler ran to its end for the request of task t
ImageHandlerDone(t) ==
    /\ tasks[t].handler \in {"staleWhileRevalidateStrategy", "handleImageRequest"}
    /\ tasks[t].pc = "done"

\* C14: when the image partition has no entry for the request and the fetch
\* rejects, the image handler returns the synthesized image placeholder, never
\* undefined and never a rejection (v3.0.0, v2.0.0, v1).
C14_ImageFailureIsPlaceholder ==
    \A t \in TaskIds :
        (ImageHandlerDone(t) /\ tasks[t].cached = NoEntry /\ tasks[t].fetched = Rejected)
            => tasks[t].result = generateImageFallback

----------------------------------------------------------------------------
(* Properties of the cache-first handlers (SpecStatic).                    *)

\* The cache-first executors of v2.0.0 / v3.0.0 for style and script resources
StaticExecutor(t) ==
    \/ worker = "v3" /\ tasks[t].handler = "cacheFirstStrategy"
    \/ worker = "v2" /\ tasks[t].handler = "handleStaticRequest"

\* The background work the hit of task t started is over
BackgroundOver(t) == tasks[t].pc = "done"

\* A network fetch was issued for task t and has settled
Refetched(t) == tasks[t].fetched # Pending

FetchedFor(key) ==
    {tasks[t].fetched : t \in {u \in TaskIds : tasks[u].request.url = key}}

\* Task t missed the static partition, its fetch returned a 2xx response, the
\* handler is over and no write for its key is still in flight
MissServedFromNetwork(t) ==
    /\ StaticExecutor(t)
    /\ tasks[t].cached = NoEntry
    /\ tasks[t].fetched \notin {Pending, Rejected} /\ Ok(tasks[t].fetched)
    /\ tasks[t].pc = "done"
    /\ \A p \in puts : p.key = tasks[t].request.url => p.settled # "pending"

\* No key other than the requested ones and no partition other than the static
\* one differs from what the worker started with
OnlyRequestedStaticKeysWritten ==
    \A n \in DOMAIN store : \A k \in Keys :
        \/ n = STATIC_CACHE(worker) /\ \E t \in TaskIds : tasks[t].request.url = k
        \/ n = STATIC_CACHE(worker) /\ k = StyleUrl /\ store[n][k] \in InitialStyleEntries
        \/ store[n][k] = IF n = IMAGE_CACHE(worker) /\ k = ImageUrl
                         THEN Precached ELSE NoEntry

\* C16: on a cache-first miss whose fetch returned a 2xx response, the handler
\* returns that network response and the static partition holds a copy of it
\* under the request key (of any of their responses when requests overlap);
\* the image and dynamic partitions and all other keys are unchanged.
C16_MissStoresNetworkResponse ==
    \A t \in TaskIds :
        MissServedFromNetwork(t) =>
            /\ tasks[t].result = tasks[t].fetched
            /\ store[STATIC_CACHE(worker)][tasks[t].request.url]
                  \in FetchedFor(tasks[t].request.url) \ {Pending, Rejected}
            /\ OnlyRequestedStaticKeysWritten

\* The v2.0.0 handler fetched a 2xx response and answered with its catch block
C16_NetworkResponseLost ==
    \E t \in TaskIds :
        /\ worker = "v2" /\ MissServedFromNetwork(t)
        /\ tasks[t].put = "rejected"
        /\ tasks[t].result = generateOfflineFallback

\* A cache-first handler (static partition) found no entry and its fetch rejected
TotalFailure(t) ==
    /\ tasks[t].handler \in CacheFirstHandlers \ {"handleImageRequest"}
    /\ tasks[t].cached = NoEntry
    /\ tasks[t].fetched = Rejected
    /\ tasks[t].pc = "done"

\* C17: a cache-first request with no cached copy whose network fetch rejects is
\* answered with a synthesized response: the empty 404 response for a font
\* request, the offline page for the others (v2.0.0 handleFontRequest /
\* handleStaticRequest, v3.0.0 cacheFirstStrategy).
C17_TotalFailureIsSynthesized ==
    \A t \in TaskIds :
        TotalFailure(t) =>
            tasks[t].result = IF tasks[t].request.destination = "font"
                              THEN EmptyFontResponse
                              ELSE generateOfflineFallback

\* The v3.0.0 worker answered a failed font request with the offline page
C17_FontGetsOfflinePage ==
    \E t \in TaskIds :
        /\ worker = "v3" /\ TotalFailure(t)
        /\ tasks[t].request = FontRequest
        /\ tasks[t].result = generateOfflineFallback

----------------------------------------------------------------------------
(* Specification SpecCleanup: the CACHE_CLEANUP message and                *)
(* performCacheCleanup (v1, v2.0.0 with trimCache, v3.0.0), one run after  *)
(* the other and nothing else writing. Dates are days, sizes megabytes.    *)

MaxRuns == 2

\* maxCacheAge / maxAge = 7 days, maxCacheSize = 50 MB
maxCacheAge == 7
maxCacheSize == 50

\* The mutant of TrimTarget: trimCache is given the whole budget
TrimTarget_Full(maxSize) == maxSize

\* maxCacheSize * 0.8
TrimTarget(maxSize) == (maxSize * 8) \div 10

\* A response with a body of the given size
WithSize(r, s) == [kind |-> r.kind, status |-> r.status, body |-> r.body, size |-> s]

\* (await response.blob()).size
BlobSize(r) == IF "size" \in DOMAIN r THEN r.size ELSE 0

\* When the install step stored its assets: 8 days before the clock reading
InstalledAt == Now - 8

\* A stored response with a date header, and one without: the latter was stored
\* at install, which the Cache API keeps no record of (stored is not a field
\* the worker can read)
Dated(d, s) == [kind |-> "live", status |-> 200, body |-> 0, size |-> s, date |-> d]
Undated(s) ==
    [kind |-> "live", status |-> 200, body |-> 0, size |-> s, stored |-> InstalledAt]

\* The mutant of Expired: the age test the other way round
Expired_Younger(now, r) == HasDate(r) /\ now - r.date < maxCacheAge

\* dateHeader && now - new Date(dateHeader).getTime() > maxCacheAge
Expired(now, r) == HasDate(r) /\ now - r.date > maxCacheAge

\* cache.keys() lists the requests in insertion order; the partitions were
\* filled in this order
KeySeq == <<RootUrl, StyleUrl, ApiUrl, ImageUrl, FontCssUrl, FontUrl>>

\* The mutant of CacheKeys: cache.keys() lists the first request only
CacheKeys_First(cache) ==
    LET all == SelectSeq(KeySeq, LAMBDA k : cache[k] # NoEntry)
    IN  IF all = <<>> THEN <<>> ELSE <<Head(all)>>

\* await cache.keys()
CacheKeys(cache) == SelectSeq(KeySeq, LAMBDA k : cache[k] # NoEntry)

\* cache.delete(request)
CacheDelete(st, n, key) == [st EXCEPT ![n][key] = NoEntry]

\* entries.reduce((sum, entry) => sum + entry.size, 0)
RECURSIVE SumSizes(_)
SumSizes(entries) ==
    IF entries = {} THEN 0
    ELSE LET e == CHOOSE x \in entries : TRUE
         IN  e.size + SumSizes(entries \ {e})

\* trimCache: the entries it collects, date 0 for a response without date header
TrimEntries(cache) ==
    {[request |-> k, date |-> IF HasDate(cache[k]) THEN cache[k].date ELSE 0,
      size |-> BlobSize(cache[k])] : k \in {x \in Keys : cache[x] # NoEntry}}

\* What the partitions can hold when a cleanup starts
StaticEntries ==
    {NoEntry, Undated(30), Dated(Now - 8, 30), Dated(Now - 7, 15), Dated(Now - 2, 30),
     Dated(Now - 1, 15)}
ImageEntries == {Dated(Now - 8, 15), Dated(Now - 1, 15)}

InitCleanup ==
    /\ worker \in Versions
    /\ cacheNames = <<STATIC_CACHE(worker), IMAGE_CACHE(worker)>>
    /\ \E a, b, c \in StaticEntries : \E i \in ImageEntries :
          store = [EmptyStore EXCEPT ![STATIC_CACHE(worker)][RootUrl] = a,
                                     ![STATIC_CACHE(worker)][StyleUrl] = b,
                                     ![STATIC_CACHE(worker)][FontUrl] = c,
                                     ![IMAGE_CACHE(worker)][ImageUrl] = i]
    /\ tasks = [t \in TaskIds |-> IdleTask]
    /\ puts = {}
    /\ fetchCount = 0
    /\ fetchEvent = [ver |-> worker, request |-> IdleTask.request]
    /\ respondWith = <<>>
    /\ listenerDone = FALSE
    /\ phase = "activated"
    /\ install = IdleInstall
    /\ activation = IdleActivation
    /\ message = IdleMessage
    /\ cleanup = IdleCleanup
    /\ reentry = IdleCleanup
    /\ clock = 0

cleanupOther ==
    <<classifyVars, cacheNames, worker, tasks, puts, fetchCount, phase, install,
      activation, message, clock>>

\* The catch block of performCacheCleanup: 'Cache cleanup failed', after a
\* cache operation rejected
CleanupFailed(c) ==
    [c EXCEPT !.pc = "idle", !.outcomes = Append(c.outcomes, "failed")]

\* The same catch block after a TypeError (the headers of undefined were read)
CleanupThrew(c) ==
    [c EXCEPT !.pc = "idle", !.outcomes = Append(c.outcomes, "TypeError")]

\* The mutant of Guarded: the response is used without the test
Guarded_Unchecked(response) == TRUE

\* if (response) (v1: response?.headers): what cache.match resolved with is
\* used only when it is a response
Guarded(response) == response # NoEntry

\* entries.sort((a, b) => a.date - b.date)[0]: the sort is stable, so of the
\* entries of one date the one cache.keys() listed first comes first
Position(key) == CHOOSE i \in DOMAIN KeySeq : KeySeq[i] = key
Oldest(entries) ==
    CHOOSE e \in entries :
        \A x \in entries :
            \/ e.date < x.date
            \/ e.date = x.date /\ Position(e.request) <= Position(x.request)

\* The steps a run of performCacheCleanup at c can take on the partitions st,
\* from one await to the next: [run |-> its locals after the step, store |-> the
\* partitions after the step]
CleanupSteps(c, st) ==
    CASE c.pc = "caches_keys" ->
            \* const cacheNames = await caches.keys()
            {[run |-> [c EXCEPT !.pc = "open", !.names = cacheNames], store |-> st],
             [run |-> CleanupFailed(c), store |-> st]}
      [] c.pc = "open" ->
            \* the head of the outer loop: caches.open(cacheName), cache.keys();
            \* after the last name, 'Cache cleanup completed'
            IF c.names = <<>>
            THEN {[run |-> [c EXCEPT !.pc = "idle",
                               !.outcomes = Append(c.outcomes, "completed")],
                   store |-> st]}
            ELSE {[run |-> [c EXCEPT !.pc = "sweep",
                               !.cacheName = Head(c.names),
                               !.names = Tail(c.names),
                               !.requests = CacheKeys(st[Head(c.names)]),
                               !.cacheSize = 0],
                   store |-> st],
                  [run |-> CleanupFailed(c), store |-> st]}
      [] c.pc = "sweep" /\ c.requests # <<>> ->
            \* one turn of the inner loop: cache.match(request), the age test
            \* and cache.delete(request), or (v2.0.0) the size of the entry that
            \* stays; reading the headers of undefined throws
            LET request == Head(c.requests)
                response == st[c.cacheName][request]
                rest == [c EXCEPT !.requests = Tail(c.requests)]
            IN  (IF ~Guarded(response)
                 THEN {[run |-> rest, store |-> st]}
                 ELSE IF response = NoEntry
                 THEN {[run |-> CleanupThrew(c), store |-> st]}
                 ELSE IF Expired(Now, response)
                 THEN {[run |-> rest, store |-> CacheDelete(st, c.cacheName, request)]}
                 ELSE {[run |-> [rest EXCEPT !.cacheSize =
                                     IF worker = "v2" THEN c.cacheSize + BlobSize(response)
                                     ELSE c.cacheSize],
                        store |-> st]})
                \cup {[run |-> CleanupFailed(c), store |-> st]}
      [] c.pc = "sweep" /\ c.requests = <<>> ->
            \* after the inner loop: (v2.0.0) if (cacheSize > maxCacheSize) await
            \* trimCache(cache, maxCacheSize * 0.8)
            {[run |-> [c EXCEPT !.pc = IF worker = "v2" /\ c.cacheSize > maxCacheSize
                                       THEN "trim_collect" ELSE "open"],
              store |-> st]}
      [] c.pc = "trim_collect" ->
            \* trimCache: cache.keys(), the entries with their dates and sizes,
            \* the sort and the sum of the sizes
            LET entries == TrimEntries(st[c.cacheName])
            IN  {[run |-> [c EXCEPT !.pc = "trim", !.entries = entries,
                                    !.currentSize = SumSizes(entries)],
                  store |-> st],
                 [run |-> CleanupFailed(c), store |-> st]}
      [] c.pc = "trim" ->
            \* trimCache: one turn of the loop over the sorted entries
            IF c.entries = {} \/ c.currentSize <= TrimTarget(maxCacheSize)
            THEN {[run |-> [c EXCEPT !.pc = "open"], store |-> st]}
            ELSE LET e == Oldest(c.entries)
                 IN  {[run |-> [c EXCEPT !.entries = c.entries \ {e},
                                         !.currentSize = c.currentSize - e.size],
                       store |-> CacheDelete(st, c.cacheName, e.request)],
                      [run |-> CleanupFailed(c), store |-> st]}
      [] OTHER -> {}

\* The run in cleanup takes its next step
CleanupStep ==
    /\ \E s \in CleanupSteps(cleanup, store) :
          /\ cleanup' = s.run
          /\ store' = s.store
    /\ UNCHANGED <<cleanupOther, reentry>>

\* message listener, case 'CACHE_CLEANUP': performCacheCleanup() starts and
\* reads the clock
OnCleanupMessage ==
    /\ phase = "activated"
    /\ cleanup.pc = "idle"
    /\ Len(cleanup.outcomes) < MaxRuns
    /\ cleanup' = [IdleCleanup EXCEPT !.pc = "caches_keys",
                                      !.before = Append(cleanup.before, store),
                                      !.outcomes = cleanup.outcomes]
    /\ UNCHANGED <<cleanupOther, store, reentry>>

\* const cacheNames = await caches.keys()
Cleanup_CachesKeys == cleanup.pc = "caches_keys" /\ CleanupStep

\* The head of the outer loop
Cleanup_Open == cleanup.pc = "open" /\ CleanupStep

\* One turn of the inner loop
Cleanup_Sweep == cleanup.pc = "sweep" /\ cleanup.requests # <<>> /\ CleanupStep

\* After the inner loop
Cleanup_EndOfCache == cleanup.pc = "sweep" /\ cleanup.requests = <<>> /\ CleanupStep

\* trimCache: collect, sort, sum
trimCache_Collect == cleanup.pc = "trim_collect" /\ CleanupStep

\* trimCache: one turn of the eviction loop
trimCache_Delete == cleanup.pc = "trim" /\ CleanupStep

NextCleanup ==
    \/ OnCleanupMessage
    \/ Cleanup_CachesKeys
    \/ Cleanup_Open
    \/ Cleanup_Sweep
    \/ Cleanup_EndOfCache
    \/ trimCache_Collect
    \/ trimCache_Delete

SpecCleanup == InitCleanup /\ [][NextCleanup]_vars

\* The event loop runs every continuation that is ready
FairSpecCleanup == SpecCleanup /\ WF_vars(NextCleanup)

----------------------------------------------------------------------------
(* Specification SpecReentrant: two CACHE_CLEANUP messages, the second     *)
(* performCacheCleanup (v2.0.0) starting while the first is running; the   *)
(* two runs interleave at every await.                                     *)

InitReentrant ==
    /\ InitCleanup
    /\ worker = "v2"
    /\ store[IMAGE_CACHE(worker)][ImageUrl] = Dated(Now - 8, 15)

\* The first CACHE_CLEANUP message
OnFirstCleanupMessage == cleanup.outcomes = <<>> /\ OnCleanupMessage

\* The second CACHE_CLEANUP message, while the first run is at an await
OnSecondCleanupMessage ==
    /\ phase = "activated"
    /\ cleanup.pc # "idle"
    /\ reentry.pc = "idle" /\ reentry.outcomes = <<>>
    /\ reentry' = [IdleCleanup EXCEPT !.pc = "caches_keys", !.before = <<store>>]
    /\ UNCHANGED <<cleanupOther, store, cleanup>>

\* The second run takes its next step
Reentry_Step ==
    /\ reentry.pc # "idle"
    /\ \E s \in CleanupSteps(reentry, store) :
          /\ reentry' = s.run
          /\ store' = s.store
    /\ UNCHANGED <<cleanupOther, cleanup>>

NextReentrant ==
    \/ OnFirstCleanupMessage
    \/ OnSecondCleanupMessage
    \/ Cleanup_CachesKeys
    \/ Cleanup_Open
    \/ Cleanup_Sweep
    \/ Cleanup_EndOfCache
    \/ trimCache_Collect
    \/ trimCache_Delete
    \/ Reentry_Step

SpecReentrant == InitReentrant /\ [][NextReentrant]_vars

----------------------------------------------------------------------------
(* Specification SpecSize: GET_CACHE_SIZE messages and getCacheSize (v1,   *)
(* v2.0.0), nothing else running.                                          *)

\* The message listener's task for GET_CACHE_SIZE: hasPort tells whether the
\* message came with a reply port, names and requests are what is left of the
\* two loops of getCacheSize, replies what was posted on the port, rejections
\* the promises given to waitUntil that rejected
IdleSizeTask ==
    [pc |-> "idle", type |-> "", hasPort |-> FALSE, names |-> <<>>, cacheName |-> "",
     requests |-> <<>>, totalSize |-> 0, replies |-> <<>>, rejections |-> 0,
     handled |-> 0]

InitSize ==
    /\ worker \in {"v1", "v2"}
    /\ cacheNames = <<STATIC_CACHE(worker), IMAGE_CACHE(worker)>>
    /\ \E a, b \in StaticEntries : \E i \in ImageEntries :
          store = [EmptyStore EXCEPT ![STATIC_CACHE(worker)][RootUrl] = a,
                                     ![STATIC_CACHE(worker)][StyleUrl] = b,
                                     ![IMAGE_CACHE(worker)][ImageUrl] = i]
    /\ tasks = [t \in TaskIds |-> IdleTask]
    /\ puts = {}
    /\ fetchCount = 0
    /\ fetchEvent = [ver |-> worker, request |-> IdleTask.request]
    /\ respondWith = <<>>
    /\ listenerDone = FALSE
    /\ phase = "activated"
    /\ install = IdleInstall
    /\ activation = IdleActivation
    /\ message = IdleSizeTask
    /\ cleanup = IdleCleanup
    /\ reentry = IdleCleanup
    /\ clock = 0

sizeOther == <<lifeOther, fetchCount, phase, install, activation>>

\* A promise of the task rejected and nothing handles it: the promise given to
\* waitUntil rejects, no reply is posted
SizeRejected(m) == [m EXCEPT !.pc = "idle", !.rejections = @ + 1]

\* message listener, case 'GET_CACHE_SIZE': getCacheSize() starts
OnMessage_GetCacheSize ==
    /\ phase = "activated"
    /\ message.pc = "idle" /\ message.handled < MaxMessages
    /\ \E port \in BOOLEAN :
          message' = [message EXCEPT !.pc = "caches_keys", !.type = "GET_CACHE_SIZE",
                                     !.hasPort = port, !.totalSize = 0,
                                     !.handled = @ + 1]
    /\ UNCHANGED <<sizeOther, storeVars>>

\* getCacheSize: const cacheNames = await caches.keys()
Size_CachesKeys ==
    /\ message.pc = "caches_keys"
    /\ \/ message' = [message EXCEPT !.pc = "open", !.names = cacheNames]
       \/ message' = SizeRejected(message)
    /\ UNCHANGED <<sizeOther, storeVars>>

\* getCacheSize, head of the outer loop: caches.open(cacheName), cache.keys();
\* after the last name the function returns totalSize
Size_Open ==
    /\ message.pc = "open"
    /\ IF message.names = <<>>
       THEN /\ message' = [message EXCEPT !.pc = "reply"]
            /\ UNCHANGED cacheNames
       ELSE \/ /\ cacheNames' = Opened(cacheNames, Head(message.names))
               /\ message' = [message EXCEPT
                      !.pc = "scan",
                      !.cacheName = Head(message.names),
                      !.names = Tail(message.names),
                      !.requests = CacheKeys(store[Head(message.names)])]
            \/ /\ message' = SizeRejected(message)
               /\ UNCHANGED cacheNames
    /\ UNCHANGED <<sizeOther, store>>

\* getCacheSize, one turn of the inner loop: cache.match(request) and
\* totalSize += blob.size
Size_Scan ==
    /\ message.pc = "scan"
    /\ IF message.requests = <<>>
       THEN message' = [message EXCEPT !.pc = "open"]
       ELSE LET response == store[message.cacheName][Head(message.requests)]
            IN  \/ message' = [message EXCEPT
                       !.requests = Tail(@),
                       !.totalSize = IF Guarded(response) THEN @ + BlobSize(response)
                                     ELSE @]
                \/ message' = SizeRejected(message)
    /\ UNCHANGED <<sizeOther, storeVars>>

\* .then(size => event.ports[0]?.postMessage({ cacheSize: size })); v1 calls
\* event.ports[0].postMessage, which throws when the message has no port
Size_Reply ==
    /\ message.pc = "reply"
    /\ message' =
          IF message.hasPort
          THEN [message EXCEPT !.pc = "idle",
                   !.replies = Append(@, [cacheSize |-> message.totalSize])]
          ELSE IF worker = "v1" THEN SizeRejected(message)
          ELSE [message EXCEPT !.pc = "idle"]
    /\ UNCHANGED <<sizeOther, storeVars>>

NextSize ==
    \/ OnMessage_GetCacheSize
    \/ Size_CachesKeys
    \/ Size_Open
    \/ Size_Scan
    \/ Size_Reply

SpecSize == InitSize /\ [][NextSize]_vars

----------------------------------------------------------------------------
(* Properties of performCacheCleanup (SpecCleanup).                        *)

\* The last run of performCacheCleanup went through both loops and logged
\* 'Cache cleanup completed'
RunCompleted ==
    /\ cleanup.pc = "idle"
    /\ cleanup.outcomes # <<>>
    /\ cleanup.outcomes[Len(cleanup.outcomes)] = "completed"

\* The content of the partitions when the last run started
StoreBefore == cleanup.before[Len(cleanup.before)]

\* The date header of r is more than 7 days before the clock reading
OlderThanRetention(r) == r # NoEntry /\ HasDate(r) /\ Now - r.date > maxCacheAge

\* The date header of r is within the last 7 days
WithinRetention(r) == r # NoEntry /\ HasDate(r) /\ Now - r.date <= maxCacheAge

\* The total body size of the entries of a partition that age eviction keeps
SurvivorSize(cache) ==
    SumSizes({[request |-> k, size |-> BlobSize(cache[k])] :
                 k \in {x \in Keys : cache[x] # NoEntry /\ ~OlderThanRetention(cache[x])}})

\* The total body size of a partition
TotalSize(cache) ==
    SumSizes({[request |-> k, size |-> BlobSize(cache[k])] :
                 k \in {x \in Keys : cache[x] # NoEntry}})

Partitions == {cacheNames[i] : i \in DOMAIN cacheNames}

\* C18: after a completed run of performCacheCleanup with nothing else writing,
\* no partition holds an entry whose date header is more than 7 days before the
\* clock reading, and every entry dated within the last 7 days is still there
\* with its response unchanged when its partition is within the size budget.
C18_AgeEviction ==
    RunCompleted =>
        \A n \in Partitions : \A k \in Keys :
            /\ ~OlderThanRetention(store[n][k])
            /\ (/\ WithinRetention(StoreBefore[n][k])
                /\ SurvivorSize(StoreBefore[n]) <= maxCacheSize)
                  => store[n][k] = StoreBefore[n][k]

\* C18 witness: the run removed an entry dated 8 days ago and kept one dated
\* 1 day ago in the same partition
C18_Witness ==
    /\ RunCompleted
    /\ \E n \in Partitions : \E k, j \in Keys :
          /\ StoreBefore[n][k] # NoEntry
          /\ HasDate(StoreBefore[n][k]) /\ StoreBefore[n][k].date = Now - 8
          /\ store[n][k] = NoEntry
          /\ StoreBefore[n][j] # NoEntry
          /\ HasDate(StoreBefore[n][j]) /\ StoreBefore[n][j].date = Now - 1
          /\ store[n][j] = StoreBefore[n][j]

\* 80% of the size budget
EightyPercentOfBudget == (maxCacheSize * 8) \div 10

\* What the size rule of v2.0.0 leaves in the partitions after a completed run
SizeBudgetKept ==
    (RunCompleted /\ worker = "v2") =>
        \A n \in Partitions :
            /\ SurvivorSize(StoreBefore[n]) > maxCacheSize
                  => TotalSize(store[n]) <= EightyPercentOfBudget
            /\ SurvivorSize(StoreBefore[n]) <= maxCacheSize
                  => \A k \in Keys : ~OlderThanRetention(StoreBefore[n][k])
                                        => store[n][k] = StoreBefore[n][k]

\* trimCache is in its eviction loop
InTrimLoop == cleanup.pc = "trim"

\* C19: after a completed run of the v2.0.0 performCacheCleanup with nothing else
\* writing, a partition whose entries surviving age eviction exceeded 50 MB
\* holds at most 80% of the budget, a partition at or under the budget lost no
\* entry to trimming, and the eviction loop of trimCache terminates.
C19_SizeBudget == []SizeBudgetKept /\ (InTrimLoop ~> ~InTrimLoop)

\* C19 witness: a partition over the budget was trimmed to at most 80% of it and
\* kept an entry
C19_Witness ==
    /\ RunCompleted /\ worker = "v2"
    /\ \E n \in Partitions :
          /\ SurvivorSize(StoreBefore[n]) > maxCacheSize
          /\ TotalSize(store[n]) <= EightyPercentOfBudget
          /\ TotalSize(store[n]) > 0

\* The first run of performCacheCleanup completed and a second run has started
SecondRun ==
    /\ Len(cleanup.outcomes) >= 1
    /\ cleanup.outcomes[1] = "completed"
    /\ \/ cleanup.pc # "idle"
       \/ Len(cleanup.outcomes) >= 2

\* C20: with the clock fixed and nothing else writing, a second run of
\* performCacheCleanup after a completed first run deletes nothing: the
\* partitions stay as the first run left them (v1, v3.0.0, and v2.0.0 with
\* trimCache).
C20_SecondRunDeletesNothing ==
    SecondRun => store = cleanup.before[2]

\* C20 witness: the first run evicted by age and trimmed, the second run
\* completed and the partitions still hold an entry
C20_Witness ==
    /\ Len(cleanup.outcomes) = 2
    /\ cleanup.outcomes[1] = "completed" /\ cleanup.outcomes[2] = "completed"
    /\ cleanup.pc = "idle"
    /\ store = cleanup.before[2]
    /\ \E n \in Partitions :
          /\ \E k \in Keys : OlderThanRetention(cleanup.before[1][n][k])
          /\ SurvivorSize(cleanup.before[1][n]) > maxCacheSize
          /\ TotalSize(store[n]) > 0

----------------------------------------------------------------------------
(* Properties of two concurrent runs of performCacheCleanup                *)
(* (SpecReentrant).                                                        *)

\* What one run of the v2.0.0 trimCache leaves of a partition
RECURSIVE Trimmed(_)
Trimmed(cache) ==
    IF TotalSize(cache) <= EightyPercentOfBudget \/ TrimEntries(cache) = {}
    THEN cache
    ELSE Trimmed([cache EXCEPT ![Oldest(TrimEntries(cache)).request] = NoEntry])

\* What one completed run of the v2.0.0 performCacheCleanup leaves of a partition
SingleRunResult(cache) ==
    LET survivors == [k \in Keys |-> IF OlderThanRetention(cache[k]) THEN NoEntry
                                     ELSE cache[k]]
    IN  IF TotalSize(survivors) > maxCacheSize THEN Trimmed(survivors) ELSE survivors

\* The partitions when the first of the two runs started
StoreAtFirstMessage == cleanup.before[1]

\* Both runs are over and logged 'Cache cleanup completed'
BothCompleted ==
    /\ cleanup.pc = "idle" /\ cleanup.outcomes = <<"completed">>
    /\ reentry.pc = "idle" /\ reentry.outcomes = <<"completed">>

----------------------------------------------------------------------------
(* Properties of the v3.0.0 executors side by side (SpecV3).               *)

\* The promise an executor of the v3.0.0 worker gave to respondWith has settled
ExecutorSettled(t) ==
    /\ worker = "v3"
    /\ tasks[t].handler \in V3Executors
    /\ tasks[t].pc \in {"done", "bg_fetch", "bg_put"} \/ tasks[t].result # Pending

\* r is a response object
IsResponse(r) == r \notin {Pending, Rejected, Undefined}

\* C22: whatever the network and the Cache API do, the promise each executor of
\* the v3.0.0 worker gives to respondWith fulfils with a response object: it
\* never rejects and never fulfils with undefined.
C22_NoBrokenRequest ==
    \A t \in TaskIds : ExecutorSettled(t) => IsResponse(tasks[t].result)

----------------------------------------------------------------------------
(* Properties of the cache-first executors under Cache API failure.        *)

\* The cache-first executors of v2.0.0 and v3.0.0
CacheFirstExecutor(t) ==
    \/ worker = "v3" /\ tasks[t].handler = "cacheFirstStrategy"
    \/ worker = "v2" /\ tasks[t].handler \in {"handleStaticRequest", "handleDocumentRequest"}

\* caches.open or cache.match rejected: the handler is over without a lookup
\* result
LookupFailed(t) == tasks[t].pc = "done" /\ tasks[t].cached = Pending

\* C23: in the cache-first executors a failing caches.open or cache.match is
\* treated as a miss, so the network fetch is still attempted, and a failing
\* cache.put after a 2xx fetch still lets the caller receive the network
\* response.
C23_CacheFailureIsAMiss ==
    \A t \in TaskIds :
        CacheFirstExecutor(t) =>
            /\ LookupFailed(t) => tasks[t].fetched # Pending
            /\ (tasks[t].pc = "done" /\ tasks[t].put = "rejected")
                  => tasks[t].result = tasks[t].fetched

----------------------------------------------------------------------------
(* Properties of getCacheSize (SpecSize).                                  *)

\* The sum of the body sizes of all entries of all existing partitions
RECURSIVE SizeOfPartitions(_)
SizeOfPartitions(names) ==
    IF names = <<>> THEN 0
    ELSE TotalSize(store[Head(names)]) + SizeOfPartitions(Tail(names))

\* Every GET_CACHE_SIZE message that came with a reply port has been handled
SizeMessagesHandled ==
    /\ message.type = "GET_CACHE_SIZE"
    /\ message.pc = "idle"
    /\ message.hasPort

\* C24: a GET_CACHE_SIZE message with a reply port gets exactly one reply
\* {cacheSize: n}, n the sum of the body sizes of all entries of all existing
\* partitions, and the scan changes no partition and no entry (v1, v2.0.0).
C24_CacheSizeReply ==
    /\ [](SizeMessagesHandled =>
            /\ Len(message.replies) >= 1
            /\ message.handled = 1 => Len(message.replies) = 1
            /\ message.replies[Len(message.replies)].cacheSize
                  = SizeOfPartitions(cacheNames))
    /\ [][message.type = "GET_CACHE_SIZE" => storeVars' = storeVars]_vars

\* ---------------------------------------------------------------------------
\* PRELOAD_CONTENT (v2.0.0)
\* ---------------------------------------------------------------------------

\* preloadContent has returned
PreloadOver == message.type = "PRELOAD_CONTENT" /\ message.pc = "idle"

\* A step of the listener or of preloadContent
PreloadStep == message' # message /\ message'.type = "PRELOAD_CONTENT"

\* A step of preloadContent changes no entry but the one of the URL it is
\* writing, in the dynamic partition, and nothing when the payload is not a list
OnlyPreloadKeysTouched ==
    PreloadStep =>
        /\ \A n \in AllCacheNames, k \in Keys :
              store'[n][k] # store[n][k]
                  => /\ n = DYNAMIC_CACHE(worker)
                     /\ message.pc = "put"
                     /\ k = Head(message.urls)
        /\ ~message'.isArray => storeVars' = storeVars

\* A fetch or a write that ends while URLs remain is followed by the next URL
PreloadGoesOn ==
    (PreloadStep /\ message.pc \in {"fetch", "put"} /\ Len(message.urls) > 1)
        => (message'.pc \in {"fetch", "put"} /\ message'.urls # <<>>)

\* The iteration for a URL whose fetch rejected or answered outside 2xx ends
\* with the partitions as they were
FailedFetchWritesNothing ==
    (PreloadStep /\ message.pc = "fetch" /\ message'.pc # "put") => store' = store

\* C25: while PRELOAD_CONTENT is handled, every URL of the payload whose fetch
\* returned 2xx is stored under that URL in the dynamic partition and nowhere
\* else, a URL whose fetch rejected or answered outside 2xx leaves its key as
\* it was and the loop goes on to the remaining URLs, and a payload that is not
\* a list changes nothing.
C25_FetchedUrlIsStored ==
    [][/\ (PreloadStep /\ message.pc = "put")
            => store'[DYNAMIC_CACHE(worker)][Head(message.urls)] = message.fetched
       /\ OnlyPreloadKeysTouched
       /\ FailedFetchWritesNothing
       /\ PreloadGoesOn]_vars

\* C25 (amended): while PRELOAD_CONTENT is handled, every URL of the payload
\* whose fetch returned 2xx and whose cache write fulfilled is stored under that
\* URL in the dynamic partition and nowhere else; a URL whose fetch rejected or
\* answered outside 2xx, or whose write rejected, leaves the partitions as they
\* were; in each of these cases the loop goes on to the remaining URLs; a
\* payload that is not a list changes nothing.
C25_WrittenUrlIsStored ==
    [][/\ (PreloadStep /\ message.pc = "put")
            => \/ store'[DYNAMIC_CACHE(worker)][Head(message.urls)] = message.fetched
               \/ store' = store
       /\ OnlyPreloadKeysTouched
       /\ FailedFetchWritesNothing
       /\ PreloadGoesOn]_vars

\* C25 witness: preloadContent has returned; the second URL of the payload is
\* stored in the dynamic partition with the body the network served, the first
\* one, whose fetch or write failed, is not
C25_Witness ==
    /\ PreloadOver /\ message.isArray
    /\ store[DYNAMIC_CACHE(worker)][ApiUrl] \in FetchOutcomes(message.handled) \ {Rejected}
    /\ Ok(store[DYNAMIC_CACHE(worker)][ApiUrl])
    /\ store[DYNAMIC_CACHE(worker)][RootUrl] \notin FetchOutcomes(message.handled)

----------------------------------------------------------------------------
(* Specification SpecFallback: the fallback generators with the status,     *)
(* headers and body they compute, invoked for failing requests while the    *)
(* clock advances.                                                          *)

\* The clock stops here
MaxClock == 3

DecimalDigits == <<"0", "1", "2", "3", "4", "5", "6", "7", "8", "9">>

\* Date.prototype.toISOString of a time in the first milliseconds of the epoch
ToISOString(ms) == "1970-01-01T00:00:00.00" \o DecimalDigits[ms + 1] \o "Z"

RECURSIVE LastSegment(_)
\* String.prototype.split('/') followed by pop(): what follows the last "/"
LastSegment(s) ==
    LET slash == IndexOf(s, "/", 1)
    IN  IF slash = 0 THEN s ELSE LastSegment(SubSeq(s, slash + 1, Len(s)))

\* new Response(body, { status, headers }); the status defaults to 200
NewResponse(status, contentType, cacheControl, retryAfter, body) ==
    [status |-> status,
     headers |-> [ContentType |-> contentType, CacheControl |-> cacheControl,
                  RetryAfter |-> retryAfter],
     body |-> body]

\* generateOfflineFallback (v2.0.0, v3.0.0): a constant HTML page
OfflineFallback ==
    NewResponse(200, "text/html; charset=utf-8", "no-cache", "",
                "<!DOCTYPE html><title>Offline - ClearCutParenting</title>")

\* generateImageFallback(originalUrl) (v2.0.0): an SVG whose caption is the
\* last segment of the URL, or 'image' when that is empty
ImageFallback(originalUrl) ==
    LET fileName == IF LastSegment(originalUrl) = "" THEN "image"
                    ELSE LastSegment(originalUrl)
    IN  NewResponse(200, "image/svg+xml", "public, max-age=86400", "",
                    "<svg><text>" \o fileName
                        \o "</text><text>Available offline</text></svg>")

\* generateAPIErrorResponse() (v2.0.0): JSON.stringify of an object that holds
\* new Date().toISOString()
APIErrorResponse(now) ==
    NewResponse(503, "application/json", "no-cache", "60",
                "{\"error\":true,\"code\":\"OFFLINE_MODE\",\"offline\":true,\"timestamp\":\""
                    \o ToISOString(now) \o "\",\"retry_after\":\"60s\"}")

\* The generators a version defines
GeneratorsOf(ver) ==
    IF ver = "v3" THEN {"generateOfflineFallback"}
    ELSE {"generateOfflineFallback", "generateImageFallback",
          "generateAPIErrorResponse"}

\* What a generator returns when a catch block calls it for the request at the
\* time now: only generateImageFallback is given the URL
Generated(generator, request, now) ==
    CASE generator = "generateOfflineFallback"  -> OfflineFallback
      [] generator = "generateImageFallback"    -> ImageFallback(request.url)
      [] generator = "generateAPIErrorResponse" -> APIErrorResponse(now)

\* The requests whose handling fails
FailingRequests ==
    {MkRequest("GET", ImageUrl, "image", "no-cors"),
     MkRequest("GET", Origin \o "/images/", "image", "no-cors"),
     MkRequest("GET", ApiUrl, "", "cors"),
     MkRequest("GET", RootUrl, "document", "navigate")}

InitFallback ==
    /\ worker \in {"v2", "v3"}
    /\ cacheNames = <<>>
    /\ store = EmptyStore
    /\ tasks = [t \in TaskIds |-> IdleTask]
    /\ puts = {}
    /\ fetchCount = 0
    /\ fetchEvent = [ver |-> worker, request |-> IdleTask.request]
    /\ respondWith = <<>>
    /\ listenerDone = FALSE
    /\ phase = "activated"
    /\ install = IdleInstall
    /\ activation = IdleActivation
    /\ message = IdleMessage
    /\ cleanup = IdleCleanup
    /\ reentry = IdleCleanup
    /\ clock = 0

\* Time passes
Tick ==
    /\ clock < MaxClock
    /\ clock' = clock + 1
    /\ UNCHANGED <<classifyVars, storeVars, execVars, phase, install, activation,
                   message, cleanup, reentry>>

\* The catch block of a handler calls a generator for its failing request
CallGenerator(t) ==
    /\ tasks[t].pc = "idle"
    /\ \E g \in GeneratorsOf(worker), q \in FailingRequests :
          tasks' = [tasks EXCEPT ![t].pc = "done", ![t].handler = g,
                                 ![t].request = q,
                                 ![t].result = Generated(g, q, clock)]
    /\ UNCHANGED <<classifyVars, storeVars, worker, puts, fetchCount, lifeVars>>

NextFallback ==
    \/ Tick
    \/ \E t \in TaskIds : CallGenerator(t)

SpecFallback == InitFallback /\ [][NextFallback]_vars

\* C26: two invocations of the same fallback generator, at any two times and
\* for any two failing requests, return responses with the same status, the
\* same headers and the same body.
C26_FallbackDeterminism ==
    \A t1 \in TaskIds, t2 \in TaskIds :
        (/\ tasks[t1].pc = "done" /\ tasks[t2].pc = "done"
         /\ tasks[t1].handler = tasks[t2].handler)
            => /\ tasks[t1].result.status = tasks[t2].result.status
               /\ tasks[t1].result.headers = tasks[t2].result.headers
               /\ tasks[t1].result.body = tasks[t2].result.body

\* ---------------------------------------------------------------------------
\* Store / read round trip (v3.0.0)
\* ---------------------------------------------------------------------------

\* The partition an executor of the v3.0.0 worker writes to
ExecutorPartition(ver, handler) ==
    IF handler = "networkFirstStrategy" THEN DYNAMIC_CACHE(ver)
    ELSE HandlerCache(ver, handler)

\* In this step the executor of task t returns the 2xx response the network
\* gave it
ReturnsNetworkResponse(t) ==
    /\ worker = "v3"
    /\ tasks'[t].handler \in V3Executors
    /\ tasks[t].result = Pending
    /\ IsResponse(tasks'[t].result)
    /\ tasks'[t].result = tasks'[t].fetched
    /\ Ok(tasks'[t].result)

\* C27: once an executor of the v3.0.0 worker has returned a 2xx network
\* response for request r, a lookup of r in the executor's partition that
\* follows at once yields a response with the same status and body.
C27_StoreReadRoundTrip ==
    [][\A t \in TaskIds :
          ReturnsNetworkResponse(t)
             => LET entry == CacheMatch(store',
                                        ExecutorPartition(worker, tasks'[t].handler),
                                        tasks'[t].request.url)
                IN  /\ entry.status = tasks'[t].result.status
                    /\ entry.body = tasks'[t].result.body]_vars

\* ---------------------------------------------------------------------------
\* Classification order (v2.0.0)
\* ---------------------------------------------------------------------------

\* A GET request with an http or https URL, given to the v2.0.0 listener
ListenedGetHttp_v2 ==
    /\ listenerDone
    /\ fetchEvent.ver = "v2"
    /\ fetchEvent.request.method = "GET"
    /\ IsHttpUrl(fetchEvent.request.url)

\* C28: the v2.0.0 fetch listener applies its tests in the order image, font,
\* style/script/CDN, API path; the first test that matches alone decides the
\* handler, a request matching none goes to handleDocumentRequest, and a
\* request matching several tests is handled by the earliest one only.
C28_FirstMatchDecides ==
    ListenedGetHttp_v2 =>
        LET r     == fetchEvent.request
            image == isImageRequest_v2(r)
            font  == isFontRequest_v2(r)
            asset == isStaticAsset_v2(r)
            api   == isAPIRequest_v2(r)
        IN  /\ Len(respondWith) = 1
            /\ image => respondWith[1] = "handleImageRequest"
            /\ (~image /\ font) => respondWith[1] = "handleFontRequest"
            /\ (~image /\ ~font /\ asset) => respondWith[1] = "handleStaticRequest"
            /\ (~image /\ ~font /\ ~asset /\ api) => respondWith[1] = "handleAPIRequest"
            /\ (~image /\ ~font /\ ~asset /\ ~api)
                  => respondWith[1] = "handleDocumentRequest"

\* C28 witness: a request that passes the image, font, static and API tests at
\* once has been given to handleImageRequest
C28_Witness ==
    /\ ListenedGetHttp_v2
    /\ isImageRequest_v2(fetchEvent.request)
    /\ isFontRequest_v2(fetchEvent.request)
    /\ isStaticAsset_v2(fetchEvent.request)
    /\ isAPIRequest_v2(fetchEvent.request)
    /\ respondWith = <<"handleImageRequest">>

\* ---------------------------------------------------------------------------
\* Default handling of documents (v2.0.0, v3.0.0)
\* ---------------------------------------------------------------------------

\* Task t is a request that passed none of the listener's tests
DefaultHandled(t) ==
    /\ tasks[t].request = DocumentRequest
    /\ tasks[t].handler = (IF worker = "v3" THEN "networkFirstStrategy"
                           ELSE "handleDocumentRequest")

\* The handler of task t has returned an entry it read from a partition
ReturnedCachedCopy(t) ==
    /\ IsResponse(tasks[t].result)
    /\ tasks[t].result # NoEntry
    /\ tasks[t].result \in {tasks[t].cached, tasks[t].anyEntry, tasks[t].dynamicEntry}

\* C29: for a GET http(s) request that passes none of the image, font, static
\* and API tests, the handler of the v3.0.0 worker (networkFirstStrategy) and of
\* the v2.0.0 worker (handleDocumentRequest) tries the network first and
\* returns a cached copy only when the network fetch has failed.
C29_DefaultIsNetworkFirst ==
    \A t \in TaskIds :
        (DefaultHandled(t) /\ ReturnedCachedCopy(t)) => tasks[t].fetched = Rejected

\* ---------------------------------------------------------------------------
\* Stale-while-revalidate, concurrent fill (v3.0.0)
\* ---------------------------------------------------------------------------

\* In this step the fetch of task t, whose lookup had found nothing, rejects
\* while the image partition holds an entry for its request: an entry another
\* task has stored since the lookup
RejectsAfterConcurrentFill(t) ==
    /\ At(t, {"staleWhileRevalidateStrategy"}, "fetch")
    /\ tasks[t].cached = NoEntry
    /\ CacheMatch(store, IMAGE_CACHE(worker), tasks[t].request.url) # NoEntry
    /\ tasks'[t].pc = "done"
    /\ tasks'[t].fetched = Rejected

\* C30: when the lookup of staleWhileRevalidateStrategy found no entry, a
\* concurrent task then stored one for the same request in the image partition
\* and this task's fetch afterwards rejects, the response returned to the
\* caller is the concurrently stored entry.
C30_ConcurrentFillIsReturned ==
    [][\A t \in TaskIds :
          RejectsAfterConcurrentFill(t)
             => tasks'[t].result
                   = CacheMatch(store, IMAGE_CACHE(worker), tasks[t].request.url)]_vars

\* ---------------------------------------------------------------------------
\* Entry timestamps (performCacheCleanup)
\* ---------------------------------------------------------------------------

\* The timestamp of an entry: its date header, else the time it was stored
EntryTimestamp(r) == IF HasDate(r) THEN r.date ELSE r.stored

\* C31: maintenance ages every entry by its timestamp, the date header when
\* there is one and the time of storing otherwise: after a completed run of
\* performCacheCleanup no entry whose timestamp is more than 7 days before the
\* clock reading is left, an entry without a date header included.
C31_UndatedEntryExpires ==
    RunCompleted =>
        \A n \in Partitions : \A k \in Keys :
            (/\ StoreBefore[n][k] # NoEntry
             /\ Now - EntryTimestamp(StoreBefore[n][k]) > maxCacheAge)
                => store[n][k] = NoEntry

----------------------------------------------------------------------------
(* Specification SpecTrim: performCacheCleanup of v2.0.0 over partitions    *)
(* whose entries are all within the retention time, with and without a date *)
(* header, so that every deletion is one of trimCache.                      *)

\* The entry r, stored at the time t
StoredAt(r, t) == [r EXCEPT !.stored = t]

\* What the static partition can hold when the cleanup starts: entries without
\* a date header stored at install or a day ago, entries dated within the last
\* 7 days
TrimmableEntries ==
    {NoEntry, Undated(30), StoredAt(Undated(30), Now - 1), Dated(Now - 5, 30),
     Dated(Now - 2, 15), Dated(Now - 1, 30)}

InitTrim ==
    /\ worker = "v2"
    /\ cacheNames = <<STATIC_CACHE(worker), IMAGE_CACHE(worker)>>
    /\ \E a, b, c \in TrimmableEntries :
          store = [EmptyStore EXCEPT ![STATIC_CACHE(worker)][RootUrl] = a,
                                     ![STATIC_CACHE(worker)][StyleUrl] = b,
                                     ![STATIC_CACHE(worker)][FontUrl] = c,
                                     ![IMAGE_CACHE(worker)][ImageUrl] = Dated(Now - 1, 15)]
    /\ tasks = [t \in TaskIds |-> IdleTask]
    /\ puts = {}
    /\ fetchCount = 0
    /\ fetchEvent = [ver |-> worker, request |-> IdleTask.request]
    /\ respondWith = <<>>
    /\ listenerDone = FALSE
    /\ phase = "activated"
    /\ install = IdleInstall
    /\ activation = IdleActivation
    /\ message = IdleMessage
    /\ cleanup = IdleCleanup
    /\ reentry = IdleCleanup
    /\ clock = 0

SpecTrim == InitTrim /\ [][NextCleanup]_vars

\* The keys the last run deleted from partition n, and those it kept
DeletedKeys(n) == {k \in Keys : StoreBefore[n][k] # NoEntry /\ store[n][k] = NoEntry}
RetainedKeys(n) == {k \in Keys : StoreBefore[n][k] # NoEntry /\ store[n][k] # NoEntry}

\* C32: whenever trimCache has deleted entries from a partition, the deleted
\* entries are a prefix of the entries ordered by timestamp ascending: no
\* deleted entry has a timestamp strictly younger than a retained one, what is
\* left is at most the target, and it was above the target before the last
\* deletion.
C32_OldestFirstEviction ==
    RunCompleted =>
        \A n \in Partitions :
            DeletedKeys(n) # {} =>
                /\ \A k \in DeletedKeys(n), j \in RetainedKeys(n) :
                      ~(EntryTimestamp(StoreBefore[n][j]) < EntryTimestamp(StoreBefore[n][k]))
                /\ TotalSize(store[n]) <= EightyPercentOfBudget
                /\ \E k \in DeletedKeys(n) :
                      TotalSize(store[n]) + BlobSize(StoreBefore[n][k])
                          > EightyPercentOfBudget

----------------------------------------------------------------------------
(* Specification SpecConcurrent: several requests for one resource handled  *)
(* at the same time: the document by networkFirstStrategy and the image by  *)
(* staleWhileRevalidateStrategy (v3.0.0), the stylesheet by                 *)
(* handleStaticRequest (v2.0.0).                                            *)

InitConcurrent ==
    /\ worker \in {"v2", "v3"}
    /\ cacheNames = <<STATIC_CACHE(worker), IMAGE_CACHE(worker)>>
    /\ \E e \in {NoEntry, Precached} :
          store = [EmptyStore EXCEPT
                      ![STATIC_CACHE(worker)][StyleUrl] = IF worker = "v2" THEN e
                                                          ELSE Precached,
                      ![IMAGE_CACHE(worker)][ImageUrl] = IF worker = "v3" THEN e
                                                         ELSE Precached]
    /\ tasks = [t \in TaskIds |-> IdleTask]
    /\ puts = {}
    /\ fetchCount = 0
    /\ fetchEvent = [ver |-> worker, request |-> IdleTask.request]
    /\ respondWith = <<>>
    /\ listenerDone = FALSE
    /\ phase = "activated"
    /\ install = IdleInstall
    /\ activation = IdleActivation
    /\ message = IdleMessage
    /\ cleanup = IdleCleanup
    /\ reentry = IdleCleanup
    /\ clock = 0

\* v3.0.0: respondWith(staleWhileRevalidateStrategy(request)) for the image
OnFetchSameImage(t) == worker = "v3" /\ Dispatch(t, {ImageRequest})

\* v2.0.0: respondWith(handleStaticRequest(request)) for the stylesheet
OnFetchSameStyle(t) == worker = "v2" /\ Dispatch(t, {StyleRequest})

NextConcurrent ==
    \/ \E t \in TaskIds : OnFetchDefault(t)
    \/ \E t \in TaskIds : OnFetchSameImage(t)
    \/ \E t \in TaskIds : OnFetchSameStyle(t)
    \/ \E t \in TaskIds : NetworkFirst_Fetch(t)
    \/ \E t \in TaskIds : NetworkFirst_Open(t)
    \/ \E t \in TaskIds : NetworkFirst_CatchMatch(t)
    \/ \E t \in TaskIds : Handler_Open(t)
    \/ \E t \in TaskIds : CacheFirst_Match(t)
    \/ \E t \in TaskIds : CacheFirst_Fetch(t)
    \/ \E t \in TaskIds : CacheFirst_Put(t)
    \/ \E t \in TaskIds : Background_Match(t)
    \/ \E t \in TaskIds : Background_Fetch(t)
    \/ \E t \in TaskIds : Background_Put(t)
    \/ \E t \in TaskIds : SWR_Match(t)
    \/ \E t \in TaskIds : SWR_Fetch(t)
    \/ PutSettles

SpecConcurrent == InitConcurrent /\ [][NextConcurrent]_vars

\* The handler of task t is over, and so is its background refresh
HandlerOver(t) == tasks[t].handler # "" /\ tasks[t].pc = "done"

\* The tasks that asked the network
Fetchers == {t \in TaskIds : tasks[t].fetched # Pending}

\* No coalescing: every task that asked the network made a fetch of its own,
\* and no two tasks hold the same answer
NoCoalescing ==
    /\ fetchCount = Cardinality(Fetchers)
    /\ \A t, u \in Fetchers :
          (t # u /\ tasks[t].fetched # Rejected) => tasks[t].fetched # tasks[u].fetched

\* The awaited cache.put of the handler of task t (handleStaticRequest or its
\* updateCacheInBackground) fulfils in this step
AwaitedPutFulfilling(t) ==
    /\ tasks[t].pc \in {"put", "bg_put"}
    /\ tasks'[t].pc = "done" /\ tasks'[t].put = "fulfilled"

\* The writes that complete in this step: partition, key and response
CompletingWrites ==
    {[cache |-> p.cache, key |-> p.key, response |-> p.response] :
        p \in {q \in puts : PutSettling(q, "fulfilled")}}
    \cup {[cache |-> HandlerCache(worker, tasks[t].handler),
           key |-> tasks[t].request.url, response |-> tasks[t].fetched] :
             t \in {u \in TaskIds : AwaitedPutFulfilling(u)}}

\* A write that completes replaces the entry of its key by its response,
\* whatever was there, and leaves every other key and partition alone; no other
\* step of a handler changes an entry
LastWriterWins ==
    /\ \A w \in CompletingWrites : store' = [store EXCEPT ![w.cache][w.key] = w.response]
    /\ store' # store => CompletingWrites # {}

\* C33: when several handlers for the same resource run concurrently, each
\* issues its own network fetch, and the entry of the key is at any time the
\* response of the write that completed last, so also after all of them have
\* settled; the entries of every other key are unchanged.
C33_EachFetchesLastWriterWins ==
    /\ [](NoCoalescing /\ \A t \in TaskIds : HandlerOver(t) => tasks[t].fetched # Pending)
    /\ [][LastWriterWins]_vars

\* C33 (amended): when several handlers for the same resource run concurrently,
\* each handler that reaches its fetch issues one of its own (no coalescing; a
\* cache-first handler that finds the entry a concurrent handler stored does
\* not fetch), and the entry of the key is at any time the response of the
\* write that completed last, so also after all of them have settled; the
\* entries of every other key are unchanged.
C33_NoCoalescingLastWriterWins ==
    /\ []NoCoalescing
    /\ [][LastWriterWins]_vars

\* C33 witness: every handler is over and every write settled; two handlers
\* fetched the same resource, both writes completed, and the partition holds
\* the answer of the earlier fetch, whose write completed last
C33_Witness ==
    /\ \A t \in TaskIds : HandlerOver(t)
    /\ \A p \in puts : p.settled # "pending"
    /\ \E p, q \in puts :
          /\ p.cache = q.cache /\ p.key = q.key
          /\ p.settled = "fulfilled" /\ q.settled = "fulfilled"
          /\ p.response.body < q.response.body
          /\ store[p.cache][p.key] = p.response

-----------------------------------------------------------------------------
(* The order of the activate listener's steps (SpecLife).                  *)

\* The purge has finished: every caches.delete it started has settled
EveryDeleteSettled == activation.deleting = {}

\* The activate listener's promise chain has reached or passed clients.claim()
ClaimReached == activation.pc \in {"notify", "done"}

\* C34: in the activate handler clients are claimed only after every delete of
\* the purge has settled, the v3.0.0 SW_UPDATED notification is posted only
\* after the claim, and in v2.0.0 / v3.0.0 the claim happens also when the
\* purge fails.
C34_PurgeThenClaimThenNotify ==
    /\ activation.claimed => EveryDeleteSettled
    /\ activation.notified => activation.claimed
    /\ (worker \in {"v2", "v3"} /\ ClaimReached) => activation.claimed

-----------------------------------------------------------------------------
(* The install barrier (SpecInstall).                                      *)

\* An install-time task is still to settle: a caches.open, an asset's fetch or
\* an asset's put (v2.0.0, v3.0.0), the open or the addAll (v1)
InstallRunning ==
    \/ \E f \in FnsOf(worker) : install.fns[f] = "open"
    \/ \E a \in Keys : install.assets[a].pc \in {"fetch", "put"}
    \/ worker = "v1" /\ install.fns["addAll"] = "running"

\* The worker leaves the installing state
InstallEnds == phase = "installing" /\ phase' # "installing"

\* The install listener's own self.skipWaiting(): the flag is raised by a step
\* that handles no message
HandlerSkipsWaiting ==
    ~install.skipWaiting /\ install'.skipWaiting /\ message' = message

\* C35: a version does not leave the installing state, and so does not become
\* the active fetch handler, before every install-time task has settled, and
\* the install listener calls skipWaiting only after they have settled, also
\* when a SKIP_WAITING message arrives while the install is running.
C35_InstallBarrier ==
    /\ [](phase \in {"installed", "activating", "activated"} =>
              install.promise = "fulfilled")
    /\ [][(InstallEnds \/ HandlerSkipsWaiting) => ~InstallRunning]_vars

\* A SKIP_WAITING message was handled while an asset's fetch was pending, and
\* the worker is still installing
C35_Witness ==
    /\ phase = "installing" /\ message.type = "SKIP_WAITING" /\ install.skipWaiting
    /\ \E a \in Keys : install.assets[a].pc = "fetch"

-----------------------------------------------------------------------------
(* One version deployed over the active one: v3.0.0 over v2.0.0            *)
(* (SpecVersions).                                                         *)

\* The version deployed after ver
Successor(ver) == IF ver = "v1" THEN "v2" ELSE "v3"

\* The next version is deployed over the active one, whose activation and
\* message handling have ended: its install listener starts
Deploy ==
    /\ phase = "activated" /\ worker # "v3"
    /\ activation.pc = "done" /\ activation.deleting = {}
    /\ message.pc = "idle"
    /\ worker' = Successor(worker)
    /\ phase' = "installing"
    /\ install' = [IdleInstall EXCEPT
                      !.fns = [f \in InstallFns |->
                                  IF f \in FnsOf(Successor(worker)) THEN "open"
                                  ELSE "unused"]]
    /\ activation' = IdleActivation
    /\ UNCHANGED <<classifyVars, storeVars, tasks, puts, fetchCount, message,
                   cleanup, reentry, clock>>

\* message listener (v2.0.0), case 'UPDATE_CACHE', with the name of a partition
\* of the version before and no URL: updateSpecificCache(data) starts
OnMessage_UpdateOldCache ==
    /\ phase = "activated" /\ worker = "v2"
    /\ message.pc = "idle" /\ message.handled < MaxMessages
    /\ message' = [message EXCEPT !.pc = "open", !.type = "UPDATE_CACHE",
                                  !.cacheName = STATIC_CACHE("v1"), !.urls = <<>>,
                                  !.handled = @ + 1, !.isArray = TRUE]
    /\ UNCHANGED <<lifeOther, storeVars, fetchCount, phase, install, activation>>

\* v2.0.0 is the active version, installed over v1 and activated with a
\* fulfilled purge: its own partitions are the only ones
InitVersions ==
    /\ worker = "v2"
    /\ cacheNames \in {<<STATIC_CACHE("v2"), IMAGE_CACHE("v2")>>,
                       <<STATIC_CACHE("v2"), IMAGE_CACHE("v2"), DYNAMIC_CACHE("v2")>>}
    /\ store = [n \in AllCacheNames |->
                   IF Has(cacheNames, n) THEN [EmptyCache EXCEPT ![RootUrl] = Precached]
                   ELSE EmptyCache]
    /\ phase = "activated"
    /\ install = [IdleInstall EXCEPT !.promise = "fulfilled", !.skipWaiting = TRUE]
    /\ activation = [IdleActivation EXCEPT
                        !.pc = "done", !.claimed = TRUE,
                        !.startNames = currentCaches("v1") \cup Names(cacheNames),
                        !.purged = currentCaches("v1")]
    /\ message = IdleMessage
    /\ cleanup = IdleCleanup
    /\ reentry = IdleCleanup
    /\ clock = 0
    /\ tasks = [t \in TaskIds |-> IdleTask]
    /\ puts = {}
    /\ fetchCount = 0
    /\ fetchEvent = [ver |-> worker, request |-> IdleTask.request]
    /\ respondWith = <<>>
    /\ listenerDone = FALSE

\* The steps of the v3.0.0 deploy over the active v2.0.0, and the page's
\* message to v2.0.0 before it
NextVersions ==
    \/ OnMessage_UpdateOldCache
    \/ Message_Open
    \/ Deploy
    \/ \E f \in InstallFns : Install_Open(f)
    \/ \E a \in Keys : Install_Fetch(a)
    \/ \E a \in Keys : Install_Put(a)
    \/ Install_Settle
    \/ OnActivate
    \/ Activate_Keys
    \/ \E n \in AllCacheNames : Activate_Delete(n)
    \/ Activate_Claim
    \/ Activate_Notify

SpecVersions == InitVersions /\ [][NextVersions]_vars

\* The versions that have a partition in the storage
VersionsPresent == {v \in Versions : Names(cacheNames) \cap currentCaches(v) # {}}

\* A step that deletes a partition
PartitionDeleted == \E n \in Names(cacheNames) : n \notin Names(cacheNames')

\* C36: across the deploys the lifecycle code deletes no
\* partition before the new version's activate handler runs, and in every
\* reachable state the existing partition names belong to at most two versions.
C36_VersionOverlapWindow ==
    /\ [](Cardinality(VersionsPresent) <= 2)
    /\ [][PartitionDeleted => activation.pc # "idle"]_vars

-----------------------------------------------------------------------------
(* Termination of the v3.0.0 executors (FairSpecSettle).                   *)

\* A step of task t that settles a promise its handler awaits. The fetch of
\* staleWhileRevalidateStrategy is awaited by the caller only after a miss;
\* updateCacheInBackground and the puts nobody awaits are not among them.
AwaitedStep(t) ==
    \/ NetworkFirst_Fetch(t)
    \/ NetworkFirst_Open(t)
    \/ NetworkFirst_CatchMatch(t)
    \/ Handler_Open(t)
    \/ CacheFirst_Match(t)
    \/ CacheFirst_Fetch(t)
    \/ SWR_Match(t)
    \/ (tasks[t].cached = NoEntry /\ SWR_Fetch(t))

\* The promise given to respondWith has settled: with a response, or rejected
Delivered(t) == tasks[t].result # Pending

\* The page issues its next request when the earlier ones were answered; what
\* they left running in the background goes on beside the new handler
OnFetchAnswered(t) ==
    /\ \A u \in TaskIds : u < t => Delivered(u)
    /\ OnFetchNetworkFirst(t) \/ OnFetchCached(t)

NextSettle ==
    \/ \E t \in TaskIds : OnFetchAnswered(t)
    \/ \E t \in TaskIds : NetworkFirst_Fetch(t)
    \/ \E t \in TaskIds : NetworkFirst_Open(t)
    \/ \E t \in TaskIds : NetworkFirst_CatchMatch(t)
    \/ \E t \in TaskIds : Handler_Open(t)
    \/ \E t \in TaskIds : CacheFirst_Match(t)
    \/ \E t \in TaskIds : CacheFirst_Fetch(t)
    \/ \E t \in TaskIds : Background_Fetch(t)
    \/ \E t \in TaskIds : Background_Put(t)
    \/ \E t \in TaskIds : SWR_Match(t)
    \/ \E t \in TaskIds : SWR_Fetch(t)
    \/ PutSettles

\* The root document was precached
InitSettle ==
    /\ InitV3
    /\ store[STATIC_CACHE(worker)][RootUrl] = Precached

\* The v3.0.0 executors where every promise a handler awaits settles; a fetch
\* or a put running in the background may stay pending for ever
FairSpecSettle ==
    InitSettle /\ [][NextSettle]_vars /\ \A t \in TaskIds : WF_vars(AwaitedStep(t))

\* Task t's fetch() is settled by this step
FetchBy(t) == fetchCount' = fetchCount + 1 /\ tasks'[t] # tasks[t]

\* Task t has a fetch running in the background: updateCacheInBackground's, or
\* the fetchPromise of staleWhileRevalidateStrategy after a hit
BackgroundPending(t) ==
    \/ At(t, CacheFirstHandlers, "bg_fetch")
    \/ At(t, {"staleWhileRevalidateStrategy"}, "fetch") /\ tasks[t].cached # NoEntry

\* C37: every task a v3.0.0 executor handles settles once the promises it
\* awaits have settled (time and again every task handled so far has been
\* answered, and an answer stays); a task issues one fetch at most (awaited
\* or in the background), never a second one; and while a background fetch is
\* pending the caller's response has already been delivered.
C37_HandlerTermination ==
    /\ []<>(\A t \in TaskIds : tasks[t].handler # "" => Delivered(t))
    /\ [][\A t \in TaskIds : FetchBy(t) => tasks[t].fetched = Pending]_vars
    /\ [](\A t \in TaskIds : BackgroundPending(t) => Delivered(t))

\* A stylesheet hit was answered while updateCacheInBackground's fetch is
\* pending, and an image hit while the revalidation's fetch is pending
C37_Witness ==
    /\ \E t \in TaskIds : At(t, CacheFirstHandlers, "bg_fetch") /\ Delivered(t)
    /\ \E t \in TaskIds : /\ At(t, {"staleWhileRevalidateStrategy"}, "fetch")
                           /\ tasks[t].cached # NoEntry /\ Delivered(t)

-----------------------------------------------------------------------------
(* What the workers write (SpecConcurrent).                                *)

\* A response the network answered with a 2xx status
NetworkSuccess(r) == r.kind = "network" /\ r.status \in 200..299

-----------------------------------------------------------------------------
(* Specification SpecRace: performCacheCleanup (v3.0.0) beside the requests *)
(* for the stylesheet, served by cacheFirstStrategy and refreshed by        *)
(* updateCacheInBackground. The inner loop's two awaits are two steps.      *)

InitRace ==
    /\ InitCleanup
    /\ worker = "v3"
    /\ store[STATIC_CACHE(worker)][RootUrl] = NoEntry
    /\ store[STATIC_CACHE(worker)][StyleUrl] = Dated(Now - 8, 30)
    /\ store[STATIC_CACHE(worker)][FontUrl] = NoEntry
    /\ store[IMAGE_CACHE(worker)][ImageUrl] = Dated(Now - 1, 15)

\* v3.0.0: respondWith(cacheFirstStrategy(request)) for the stylesheet
OnFetchStyle(t) == worker = "v3" /\ Dispatch(t, {StyleRequest})

\* performCacheCleanup, inner loop: const response = await cache.match(request)
\* and the age test on what was read
Sweep_Match ==
    /\ cleanup.pc = "sweep" /\ cleanup.requests # <<>>
    /\ LET response == store[cleanup.cacheName][Head(cleanup.requests)]
       IN  \/ cleanup' = IF Guarded(response) /\ Expired(Now, response)
                         THEN [cleanup EXCEPT !.pc = "delete", !.response = response]
                         ELSE [cleanup EXCEPT !.requests = Tail(@)]
           \/ cleanup' = CleanupFailed(cleanup)
    /\ UNCHANGED <<cleanupOther, store, reentry>>

\* performCacheCleanup, inner loop: await cache.delete(request)
Sweep_Delete ==
    /\ cleanup.pc = "delete"
    /\ \/ /\ store' = CacheDelete(store, cleanup.cacheName, Head(cleanup.requests))
          /\ cleanup' = [cleanup EXCEPT !.pc = "sweep", !.requests = Tail(@),
                                        !.response = NoEntry]
       \/ /\ cleanup' = CleanupFailed(cleanup)
          /\ UNCHANGED store
    /\ UNCHANGED <<cleanupOther, reentry>>

NextRace ==
    \/ \E t \in TaskIds : OnFetchStyle(t)
    \/ \E t \in TaskIds : Handler_Open(t)
    \/ \E t \in TaskIds : CacheFirst_Match(t)
    \/ \E t \in TaskIds : CacheFirst_Fetch(t)
    \/ \E t \in TaskIds : Background_Fetch(t)
    \/ \E t \in TaskIds : Background_Put(t)
    \/ PutSettles
    \/ OnCleanupMessage
    \/ Cleanup_CachesKeys
    \/ Cleanup_Open
    \/ Sweep_Match
    \/ Sweep_Delete
    \/ Cleanup_EndOfCache

SpecRace == InitRace /\ [][NextRace]_vars

\* This step deletes the entry of key k in partition n
EntryDeleted(n, k) == store[n][k] # NoEntry /\ store'[n][k] = NoEntry

\* C39: under every interleaving of performCacheCleanup with the handlers and
\* the background refreshes, an entry is deleted only if the response stored
\* under its key at the moment of the deletion has a date header more than 7
\* days old: a response a refresh wrote after the cleanup read the old one is
\* not lost.
C39_FreshEntryIsNotEvicted ==
    [][\A n \in AllCacheNames : \A k \in Keys :
          EntryDeleted(n, k) => OlderThanRetention(store[n][k])]_vars

-----------------------------------------------------------------------------
(* Maintenance only deletes (SpecCleanup).                                 *)

\* A run of performCacheCleanup is over, completed or failed
RunOver == cleanup.pc = "idle" /\ cleanup.outcomes # <<>>

\* An entry the age test keeps: no date header, or a date within the last 7 days
KeptByAge(r) == r # NoEntry /\ (~HasDate(r) \/ Now - r.date <= maxCacheAge)

\* C40: performCacheCleanup and trimCache never add an entry and never change
\* a stored response: every step leaves an entry as it is or deletes it; after
\* a run every partition's key set is a subset of its key set before and every
\* surviving entry maps to the same response; and in the age-only variants
\* (v1, v3.0.0) every entry with no date header or a date within the last 7
\* days survives.
C40_MaintenanceOnlyDeletes ==
    /\ [][\A n \in AllCacheNames : \A k \in Keys :
              store'[n][k] = store[n][k] \/ store'[n][k] = NoEntry]_vars
    /\ [](RunOver =>
              \A n \in AllCacheNames : \A k \in Keys :
                  /\ store[n][k] # NoEntry => store[n][k] = StoreBefore[n][k]
                  /\ (worker \in {"v1", "v3"} /\ KeptByAge(StoreBefore[n][k]))
                         => store[n][k] = StoreBefore[n][k])

\* A completed age-only run deleted an expired entry and left an entry with no
\* date header and one dated within the last 7 days
C40_Witness ==
    /\ RunCompleted /\ worker \in {"v1", "v3"}
    /\ \E n \in AllCacheNames : \E k1, k2, k3 \in Keys :
          /\ StoreBefore[n][k1] # NoEntry /\ store[n][k1] = NoEntry
          /\ store[n][k2] # NoEntry /\ ~HasDate(store[n][k2])
          /\ store[n][k3] # NoEntry /\ HasDate(store[n][k3])
====
